---- MODULE Spec2Model ----
(***************************************************************************)
(* Model of the session pipeline of backend/app/services/data_loader.py:   *)
(* the load-once event store (SpotifyDataLoader.load_data), the 30-minute  *)
(* gap segmentation (_build_sessions), the per-session features            *)
(* (_extract_session_features), the k selection of _cluster_sessions and   *)
(* the three query entry points built on it, the other gap scans, the     *)
(* listening streaks and the single-date lookup; of concurrent first loads *)
(* of the store; and of the two scripts src/run_all_analyses.py and        *)
(* src/musixmatch.py.                                                      *)
(*                                                                         *)
(* Time is counted in whole seconds since the epoch (UTC, the 'Z' form of  *)
(* the export).  An event record is                                        *)
(*   [ts, artist, skipped, ms_played]                                      *)
(* with ts = NoTs when the 'ts' key is absent, None or the empty string,   *)
(* ts = BadTs when it is a non-empty string that is no ISO instant,        *)
(* and artist = NoArtist when the artist name is absent.  A session holds  *)
(* its events by reference: 'records' is a sequence of positions in the    *)
(* store.                                                                  *)
(***************************************************************************)
EXTENDS Integers, Sequences, FiniteSets, TLC

VARIABLES
    disk,      \* the files streaming_[0-9]*.json of DATA_DIR, in sorted name order
    _data,     \* SpotifyDataLoader._data
    _loaded,   \* SpotifyDataLoader._loaded
    oracle,    \* what the fitted KMeans / silhouette_score return (fixed seed)
    ret,       \* outcome of the last call
    threads,   \* the callers that are inside load_data or a query method
    runner,    \* src/run_all_analyses.py: position and locals of main()
    fetcher    \* src/musixmatch.py: position and locals of main()

vars == <<disk, _data, _loaded, oracle, ret, threads, runner, fetcher>>

\* the two scripts and the concurrent callers, when they are not running
NoThreads == <<>>
NoRunner == <<>>
NoFetcher == <<>>

---------------------------------------------------------------------------
(* Program constants *)

GapThresholdMinutes == 30
MinTrackCount == 3
MinSessions == 10
MaxClusters == 8
DefaultBestK == 3
\* default of the limit parameter
DefaultLimit == 100
\* best_score = -1 before the search, in thousandths
InitialBestScore == -1000

DefaultBingeLimit == 20
SampleSize == 10
DefaultStreakLimit == 10
MinStreakSpan == 2
MaxBingeLimit == 50
NoTs == -1
\* a 'ts' that is a non-empty value but no ISO instant
BadTs == -2
NoArtist == "none"

---------------------------------------------------------------------------
(* Bounds of the model *)

\* longest event list drawn for the session builder
MaxEvents == 6
\* longest event list drawn for the store under the full set of calls
MaxStoreEvents == 3
\* a small limit passed to get_session_assignments
MaxLimit == 3
\* most files on disk
MaxFiles == 2
\* longest event list that is also drawn split over two files or beside a
\* corrupt file
MaxSplitLen == 2
\* the large stores hold 10*j - 1 and 10*j sessions for j up to MaxTens
MaxTens == 3
\* concurrent callers of the store
MaxThreads == 2
\* longest event list given to the four gap scans together
MaxScanEvents == 5
\* listening days are drawn from 0..MaxDay
MaxDay == 8
\* size of a small set of track URIs
MaxUris == 3

---------------------------------------------------------------------------
(* Generic helpers *)

Min2(a, b) == IF a <= b THEN a ELSE b

Range(s) == {s[i] : i \in 1..Len(s)}

RECURSIVE Concat(_)
\* all_data.extend(data) over the files, in order
Concat(ss) == IF ss = <<>> THEN <<>> ELSE Head(ss) \o Concat(Tail(ss))

\* Python round() on an exact quotient num/den (den > 0): nearest integer,
\* ties to the even one.
RoundDiv(num, den) ==
    LET q == num \div den
        r == num % den
    IN  IF 2 * r < den THEN q
        ELSE IF 2 * r > den THEN q + 1
        ELSE IF q % 2 = 0 THEN q ELSE q + 1

\* str < str on strings made of fixed-width fields, and datetime < datetime
\* on a one-field key: the first differing field decides
LexLess(a, b) ==
    IF Len(a) = 1 THEN a[1] < b[1]
    ELSE \E i \in 1..Len(a) : a[i] < b[i] /\ \A j \in 1..(i - 1) : a[j] = b[j]

\* is key x ordered strictly before key y (after it, when desc)
Before(x, y, desc) == IF desc THEN LexLess(y, x) ELSE LexLess(x, y)

RECURSIVE SortBy(_, _, _)
\* Python sorted(s, key=..., reverse=desc) on a sequence s of positions with
\* key[position]: the stable order, equal keys keep their relative order.
\* Computed by a three-way split around the key of the middle element.
SortBy(s, key, desc) ==
    IF Len(s) <= 1 THEN s
    ELSE LET pivot == key[s[(Len(s) + 1) \div 2]]
         IN  SortBy(SelectSeq(s, LAMBDA x : Before(key[x], pivot, desc)), key, desc)
             \o SelectSeq(s, LAMBDA x : key[x] = pivot)
             \o SortBy(SelectSeq(s, LAMBDA x : Before(pivot, key[x], desc)), key, desc)

RECURSIVE SumRange(_, _, _)
\* sum(f[lo..hi])
SumRange(f, lo, hi) ==
    IF lo > hi THEN 0
    ELSE IF lo = hi THEN f[lo]
    ELSE LET mid == (lo + hi) \div 2
         IN  SumRange(f, lo, mid) + SumRange(f, mid + 1, hi)

---------------------------------------------------------------------------
(* datetime *)

\* mutant: the instant is formatted to the day only
IsoFormat_Date(t) == <<t \div 86400, 0, 0, 0>>

\* datetime.isoformat() of a UTC instant: date, hour, minute and second
\* fields, each zero padded to a fixed width, so that strings compare field
\* by field.
IsoFormat(t) == <<t \div 86400, (t \div 3600) % 24, (t \div 60) % 60, t % 60>>

\* datetime.hour
HourOf(t) == (t \div 3600) % 24

\* datetime.weekday(): Monday = 0; 1970-01-01 was a Thursday
WeekdayOf(t) == ((t \div 86400) + 3) % 7

---------------------------------------------------------------------------
(* Event store: load_data *)

\* mutant: the loaded flag is not consulted, every call reads the files again
load_data_Reload(d, data, loaded) ==
    IF \E i \in 1..Len(d) : ~d[i].ok
    THEN [data |-> data, loaded |-> loaded, raised |-> TRUE]
    ELSE [data |-> Concat([i \in 1..Len(d) |-> d[i].recs]),
          loaded |-> TRUE, raised |-> FALSE]

\* mutant: the records are stored file by file, so a file that fails to
\* parse leaves the records of the files before it in the store
load_data_Partial(d, data, loaded) ==
    IF loaded
    THEN [data |-> data, loaded |-> loaded, raised |-> FALSE]
    ELSE IF \E i \in 1..Len(d) : ~d[i].ok
         THEN LET bad == CHOOSE i \in 1..Len(d) :
                             ~d[i].ok /\ \A j \in 1..(i - 1) : d[j].ok
              IN  [data |-> Concat([i \in 1..(bad - 1) |-> d[i].recs]),
                   loaded |-> loaded, raised |-> TRUE]
         ELSE [data |-> Concat([i \in 1..Len(d) |-> d[i].recs]),
               loaded |-> TRUE, raised |-> FALSE]

\* A file is [ok, recs]: ok = FALSE when json.load raises on it.
\* load_data(d, data, loaded) is the store after the call and whether the
\* call raised.
load_data(d, data, loaded) ==
    IF loaded
    THEN [data |-> data, loaded |-> loaded, raised |-> FALSE]
    ELSE IF \E i \in 1..Len(d) : ~d[i].ok
         THEN [data |-> data, loaded |-> loaded, raised |-> TRUE]
         ELSE [data |-> Concat([i \in 1..Len(d) |-> d[i].recs]),
               loaded |-> TRUE, raised |-> FALSE]

---------------------------------------------------------------------------
(* Session builder: _build_sessions and _extract_session_features *)

\* number of distinct non-empty artist names among the records
UniqueArtists(data, records) ==
    Cardinality({data[records[i]].artist : i \in 1..Len(records)} \ {NoArtist})

SkippedCount(data, records) ==
    Cardinality({i \in 1..Len(records) : data[records[i]].skipped})

\* sum of ms_played over the records
SumMs(data, records) ==
    SumRange([i \in 1..Len(records) |-> data[records[i]].ms_played], 1, Len(records))

\* Ratios are kept as the integer the rounded value stands for:
\* duration_minutes, skip_ratio, avg_track_duration in hundredths,
\* diversity_score in thousandths.
_extract_session_features(data, session) ==
    LET records == session.records
        start_time == session.start_time
        end_time == session.end_time
        track_count == Len(records)
        unique_artists_count == UniqueArtists(data, records)
    IN  [session_id |-> IsoFormat(start_time),
         start_time |-> IsoFormat(start_time),
         end_time |-> IsoFormat(end_time),
         duration_minutes |-> RoundDiv((end_time - start_time) * 100, 60),
         track_count |-> track_count,
         unique_artists_count |-> unique_artists_count,
         skip_ratio |-> IF track_count > 0
                        THEN RoundDiv(SkippedCount(data, records) * 10000, track_count)
                        ELSE 0,
         avg_track_duration |-> IF track_count > 0
                                THEN RoundDiv(SumMs(data, records) * 100,
                                              60000 * track_count)
                                ELSE 0,
         hour_of_day |-> HourOf(start_time),
         is_weekend |-> IF WeekdayOf(start_time) >= 5 THEN 1 ELSE 0,
         diversity_score |-> IF track_count > 0
                             THEN RoundDiv(unique_artists_count * 1000, track_count)
                             ELSE 0,
         records |-> records]

\* The sort key datetime.fromisoformat(x['ts'].replace('Z', '+00:00')) raises
\* ValueError on a record that passed the filter `if r.get('ts')` with a
\* string that is no ISO instant; _build_sessions then raises.
ParseRaises(data) == \E i \in 1..Len(data) : data[i].ts = BadTs

\* mutant: the timestamped records are left in arrival order
SortedRecords_Unsorted(data) ==
    SelectSeq([i \in 1..Len(data) |-> i], LAMBDA i : data[i].ts # NoTs)

\* mutant: the records are sorted newest first
SortedRecords_Descending(data) ==
    SortBy(SelectSeq([i \in 1..Len(data) |-> i], LAMBDA i : data[i].ts # NoTs),
           [i \in 1..Len(data) |-> <<data[i].ts>>], TRUE)

\* sorted([r for r in self._data if r.get('ts')], key=parsed ts), as positions
SortedRecords(data) ==
    SortBy(SelectSeq([i \in 1..Len(data) |-> i], LAMBDA i : data[i].ts # NoTs),
           [i \in 1..Len(data) |-> <<data[i].ts>>], FALSE)

\* mutant: a gap of exactly 30 minutes opens a new session
WithinGap_Strict(dt, end_time) == dt - end_time < GapThresholdMinutes * 60

\* (dt - end_time).total_seconds() / 60 <= 30, on whole seconds
WithinGap(dt, end_time) == dt - end_time <= GapThresholdMinutes * 60

\* mutant: a record added to the open session does not move its end_time
ScanStep_EndKept(data, record, st, minTracks) ==
    LET current_session == st.current_session
        dt == data[record].ts
    IN  IF dt = NoTs THEN st
        ELSE IF current_session.start_time = NoTs
        THEN [current_session |->
                  [start_time |-> dt, end_time |-> dt, records |-> <<record>>],
              sessions |-> st.sessions]
        ELSE IF WithinGap(dt, current_session.end_time)
        THEN [current_session |->
                  [current_session EXCEPT !.records = Append(@, record)],
              sessions |-> st.sessions]
        ELSE [current_session |->
                  [start_time |-> dt, end_time |-> dt, records |-> <<record>>],
              sessions |->
                  IF Len(current_session.records) >= minTracks
                  THEN Append(st.sessions,
                              _extract_session_features(data, current_session))
                  ELSE st.sessions]

\* One pass of the loop body over `record`: st is [current_session, sessions].
\* A closed run is kept when it has at least minTracks records.
ScanStep(data, record, st, minTracks) ==
    LET current_session == st.current_session
        dt == data[record].ts
    IN  IF dt = NoTs THEN st
        ELSE IF current_session.start_time = NoTs
        THEN [current_session |->
                  [start_time |-> dt, end_time |-> dt, records |-> <<record>>],
              sessions |-> st.sessions]
        ELSE IF WithinGap(dt, current_session.end_time)
        THEN [current_session |->
                  [current_session EXCEPT !.end_time = dt,
                                          !.records = Append(@, record)],
              sessions |-> st.sessions]
        ELSE [current_session |->
                  [start_time |-> dt, end_time |-> dt, records |-> <<record>>],
              sessions |->
                  IF Len(current_session.records) >= minTracks
                  THEN Append(st.sessions,
                              _extract_session_features(data, current_session))
                  ELSE st.sessions]

RECURSIVE ScanLoop(_, _, _, _, _, _)
\* for record in sorted_records[lo..hi], run in order from state st: the
\* passes lo..mid first, then mid+1..hi from the state they leave (the test
\* on half makes TLC evaluate the first part before it enters the second)
ScanLoop(data, sorted, lo, hi, st, minTracks) ==
    IF lo > hi THEN st
    ELSE IF lo = hi THEN ScanStep(data, sorted[lo], st, minTracks)
    ELSE LET mid == (lo + hi) \div 2
             half == ScanLoop(data, sorted, lo, mid, st, minTracks)
         IN  IF Len(half.sessions) >= 0
             THEN ScanLoop(data, sorted, mid + 1, hi, half, minTracks)
             ELSE half

\* mutant: the last open session is flushed whatever its size
FlushLast_Unfiltered(data, st, minTracks) ==
    IF st.current_session.start_time # NoTs
    THEN Append(st.sessions, _extract_session_features(data, st.current_session))
    ELSE st.sessions

\* the flush after the loop
FlushLast(data, st, minTracks) ==
    IF st.current_session.start_time # NoTs
       /\ Len(st.current_session.records) >= minTracks
    THEN Append(st.sessions, _extract_session_features(data, st.current_session))
    ELSE st.sessions

\* the runs of the gap scan, kept when they have at least minTracks records
SessionsWithMin(data, minTracks) ==
    LET sorted_records == SortedRecords(data)
    IN  IF sorted_records = <<>> THEN <<>>
        ELSE FlushLast(data,
                       ScanLoop(data, sorted_records, 1, Len(sorted_records),
                                [current_session |->
                                     [start_time |-> NoTs, end_time |-> NoTs,
                                      records |-> <<>>],
                                 sessions |-> <<>>],
                                minTracks),
                       minTracks)

\* mutant: runs of 2 records are kept
_build_sessions_Pairs(data) == SessionsWithMin(data, MinTrackCount - 1)

_build_sessions(data) == SessionsWithMin(data, MinTrackCount)

\* the runs of the scan before the short ones are dropped
AllRuns(data) == SessionsWithMin(data, 0)

---------------------------------------------------------------------------
(* Clustering: _cluster_sessions *)

feature_names ==
    <<"duration_minutes", "track_count", "unique_artists_count", "skip_ratio",
      "avg_track_duration", "hour_of_day", "is_weekend", "diversity_score">>

\* X = [[s[f] for f in feature_names] for s in sessions]
FeatureMatrix(sessions) ==
    [i \in 1..Len(sessions) |->
        [j \in 1..Len(feature_names) |-> sessions[i][feature_names[j]]]]

\* KMeans(n_clusters=k, random_state=42, n_init=10).fit_predict(X_scaled).
\* The library is not part of the repository: with the seed fixed its labels
\* are a function of the input, chosen by the oracle.  It never finds more
\* distinct clusters than there are distinct rows; the oracle may leave one
\* cluster id empty (variant 1: the last id, variant 2: the first id).
KMeansLabels(o, X, k) ==
    LET distinct == Cardinality(Range(X))
        want == IF o.variant = 0 \/ k = 2 THEN k ELSE k - 1
        m == Min2(want, distinct)
        shift == IF o.variant = 2 /\ m < k THEN 1 ELSE 0
    IN  [i \in 1..Len(X) |-> ((i - 1) % m) + shift]

\* silhouette_score(X_scaled, labels) in thousandths; it raises ValueError
\* unless 2 <= number of distinct labels <= n_samples - 1
SilhouetteRaises(labels) ==
    LET n_labels == Cardinality(Range(labels))
    IN  ~(2 <= n_labels /\ n_labels <= Len(labels) - 1)

SilhouetteScore(o, k) == o.score[k]

\* mutant: the cap is 7
MaxK_Cap7(n) ==
    LET max_k == Min2(MaxClusters - 1, n \div MinSessions)
    IN  IF max_k < 2 THEN 2 ELSE max_k

\* mutant: a max_k below 2 is raised to the default 3
MaxK_RaisedTo3(n) ==
    LET max_k == Min2(MaxClusters, n \div MinSessions)
    IN  IF max_k < 2 THEN DefaultBestK ELSE max_k

\* max_k = min(8, len(sessions) // 10), raised to 2
MaxK(n) ==
    LET max_k == Min2(MaxClusters, n \div MinSessions)
    IN  IF max_k < 2 THEN 2 ELSE max_k

RECURSIVE SelectK_LastBest(_, _, _, _, _, _, _)
\* mutant: a candidate that equals the best score replaces it
SelectK_LastBest(o, X, k, max_k, best_k, best_score, tried) ==
    IF k > max_k
    THEN [raised |-> FALSE, best_k |-> best_k, best_score |-> best_score,
          tried |-> tried]
    ELSE IF SilhouetteRaises(KMeansLabels(o, X, k))
    THEN [raised |-> TRUE, best_k |-> best_k, best_score |-> best_score,
          tried |-> Append(tried, k)]
    ELSE LET score == SilhouetteScore(o, k)
         IN  IF score >= best_score
             THEN SelectK_LastBest(o, X, k + 1, max_k, k, score, Append(tried, k))
             ELSE SelectK_LastBest(o, X, k + 1, max_k, best_k, best_score,
                                   Append(tried, k))

RECURSIVE SelectK(_, _, _, _, _, _, _)
\* for k in range(2, max_k + 1): fit, score, keep the first strictly best;
\* tried lists the k fitted so far, in the order of the loop
SelectK(o, X, k, max_k, best_k, best_score, tried) ==
    IF k > max_k
    THEN [raised |-> FALSE, best_k |-> best_k, best_score |-> best_score,
          tried |-> tried]
    ELSE IF SilhouetteRaises(KMeansLabels(o, X, k))
    THEN [raised |-> TRUE, best_k |-> best_k, best_score |-> best_score,
          tried |-> Append(tried, k)]
    ELSE LET score == SilhouetteScore(o, k)
         IN  IF score > best_score
             THEN SelectK(o, X, k + 1, max_k, k, score, Append(tried, k))
             ELSE SelectK(o, X, k + 1, max_k, best_k, best_score, Append(tried, k))

\* scaler.inverse_transform(kmeans.cluster_centers_): one row per cluster id,
\* the mean of the rows labelled with it (a row of zeros for an empty cluster)
Centroids(X, labels, k) ==
    [c \in 1..k |->
        LET size == Cardinality({i \in 1..Len(X) : labels[i] = c - 1})
        IN  [j \in 1..Len(feature_names) |->
                IF size = 0 THEN 0
                ELSE RoundDiv(SumRange([i \in 1..Len(X) |->
                                           IF labels[i] = c - 1 THEN X[i][j] ELSE 0],
                                       1, Len(X)),
                              size)]]

\* mutant: the session gets the label that follows its own
WithLabel_Next(session, label) == session @@ ("cluster_label" :> label + 1)

\* session['cluster_label'] = int(labels[i])
WithLabel(session, label) == session @@ ("cluster_label" :> label)

ClusterFallback(sessions) ==
    [status |-> "error",
     sessions |-> sessions,
     labels |-> [i \in 1..Len(sessions) |-> 0],
     n_clusters |-> 1,
     centroids |-> <<>>,
     feature_names |-> <<>>,
     silhouette_score |-> 0,
     tried |-> <<>>]

ClusterRaised ==
    [status |-> "raised", sessions |-> <<>>, labels |-> <<>>, n_clusters |-> 0,
     centroids |-> <<>>, feature_names |-> <<>>, silhouette_score |-> 0]

\* mutant: the fallback is taken below 9 sessions
TooFewSessions_Below9(n) == n < MinSessions - 1

\* if len(sessions) < 10
TooFewSessions(n) == n < MinSessions

\* mutant: the label is also written into the records of the session
LabelledEvents_Records(sessions, i) == Range(sessions[i].records)

\* The store events that `session['cluster_label'] = int(labels[i])` writes
\* for session i, as positions: session is the dictionary returned by
\* _extract_session_features, which is no event record, so none.
LabelledEvents(sessions, i) == {}

\* the store after the writes of the labelling loop
StoreAfterLabels(data, sessions, labels) ==
    LET written == UNION {LabelledEvents(sessions, i) : i \in 1..Len(sessions)}
    IN  IF written = {} THEN data
        ELSE [p \in 1..Len(data) |->
                 IF p \in written
                 THEN LET i == CHOOSE i \in 1..Len(sessions) :
                                   p \in LabelledEvents(sessions, i)
                      IN  data[p] @@ ("cluster_label" :> labels[i])
                 ELSE data[p]]

\* The result of _cluster_sessions, with two fields that are not keys of the
\* dictionary: status, and tried, the candidate k of the selection loop in
\* the order they were fitted.
\* status "error": the dictionary carries the 'error' key (fewer than 10
\* sessions); "ok": the fitted result; "raised": _build_sessions or
\* silhouette_score raised.
_cluster_sessions(data, o) ==
    LET sessions == _build_sessions(data)
    IN  IF ParseRaises(data) THEN ClusterRaised
        ELSE IF TooFewSessions(Len(sessions))
        THEN ClusterFallback(sessions)
        ELSE LET X == FeatureMatrix(sessions)
                 sel == SelectK(o, X, 2, MaxK(Len(sessions)),
                                DefaultBestK, InitialBestScore, <<>>)
             IN  IF sel.raised THEN ClusterRaised
                 ELSE LET labels == KMeansLabels(o, X, sel.best_k)
                      IN  [status |-> "ok",
                           sessions |-> [i \in 1..Len(sessions) |->
                                            WithLabel(sessions[i], labels[i])],
                           labels |-> labels,
                           n_clusters |-> sel.best_k,
                           centroids |-> Centroids(X, labels, sel.best_k),
                           feature_names |-> feature_names,
                           silhouette_score |-> sel.best_score,
                           tried |-> sel.tried]

\* self._data as the call of _cluster_sessions that returned
\* clustering_result leaves it: _build_sessions and _extract_session_features
\* only read the records, the labelling loop (reached when nothing raised and
\* the fallback was not taken) is the one place that writes
StoreAfterClustering(data, clustering_result) ==
    IF clustering_result.status = "ok"
    THEN StoreAfterLabels(data, clustering_result.sessions, clustering_result.labels)
    ELSE data

---------------------------------------------------------------------------
(* Query entry points *)

\* mutant: a cluster id without sessions is listed too
ClusterProfiles_KeepEmpty(sessions, n_clusters) ==
    LET Count(c) == Cardinality({i \in 1..Len(sessions) : sessions[i].cluster_label = c})
    IN  [x \in 1..n_clusters |-> [cluster_id |-> x - 1, session_count |-> Count(x - 1)]]

\* the 'clusters' list of get_session_clusters: one entry per non-empty
\* cluster id, in ascending id order
ClusterProfiles(sessions, n_clusters) ==
    LET Count(c) == Cardinality({i \in 1..Len(sessions) : sessions[i].cluster_label = c})
        ids == SelectSeq([c \in 1..n_clusters |-> c - 1], LAMBDA c : Count(c) > 0)
    IN  [x \in 1..Len(ids) |-> [cluster_id |-> ids[x], session_count |-> Count(ids[x])]]

\* Each entry point starts with clustering_result = self._cluster_sessions();
\* the operators below take that result.
\* get_session_clusters: the fallback dictionary itself when it carries the
\* 'error' key, else the report
get_session_clusters(clustering_result) ==
    IF clustering_result.status # "ok" THEN clustering_result
    ELSE [status |-> "ok",
          n_clusters |-> clustering_result.n_clusters,
          total_sessions |-> Len(clustering_result.sessions),
          silhouette_score |-> clustering_result.silhouette_score,
          clusters |-> ClusterProfiles(clustering_result.sessions,
                                       clustering_result.n_clusters)]

\* get_session_centroids
get_session_centroids(clustering_result) ==
    IF clustering_result.status = "raised" THEN [status |-> "raised", value |-> <<>>]
    ELSE IF clustering_result.status = "error" THEN [status |-> "ok", value |-> <<>>]
    ELSE [status |-> "ok",
          value |-> [i \in 1..Len(clustering_result.centroids) |->
                        [cluster_id |-> i - 1,
                         features |-> clustering_result.centroids[i]]]]

\* session.copy() without the 'records' key
StripRecords(session) == [f \in DOMAIN session \ {"records"} |-> session[f]]

\* mutant: reverse=True is missing, the oldest session comes first
SortedByStartDesc_Ascending(sessions) ==
    SortBy([i \in 1..Len(sessions) |-> i],
           [i \in 1..Len(sessions) |-> sessions[i].start_time], FALSE)

\* sorted(sessions, key=lambda x: x['start_time'], reverse=True), as positions
SortedByStartDesc(sessions) ==
    SortBy([i \in 1..Len(sessions) |-> i],
           [i \in 1..Len(sessions) |-> sessions[i].start_time], TRUE)

\* get_session_assignments(limit)
get_session_assignments(clustering_result, limit) ==
    IF clustering_result.status = "raised" THEN [status |-> "raised", value |-> <<>>]
    ELSE IF clustering_result.status = "error" THEN [status |-> "ok", value |-> <<>>]
    ELSE LET sessions == clustering_result.sessions
             order == SortedByStartDesc(sessions)
             sessions_sorted == SubSeq(order, 1, Min2(limit, Len(order)))
         IN  [status |-> "ok",
              value |-> [i \in 1..Len(sessions_sorted) |->
                            StripRecords(sessions[sessions_sorted[i]])]]

---------------------------------------------------------------------------
(* Single-date lookup: get_flashback *)

\* datetime.fromisoformat(date_str).date() on the date strings drawn: the day
\* number of the date, or ValueError
ParseDate(date_str) ==
    CASE date_str = "1970-01-01" -> [ValueError |-> FALSE, day |-> 0]
      [] date_str = "1970-01-01T23:59:59" -> [ValueError |-> FALSE, day |-> 0]
      [] date_str = "1970-01-02" -> [ValueError |-> FALSE, day |-> 1]
      [] date_str = "1970-13-01" -> [ValueError |-> TRUE, day |-> 0]
      [] date_str = "01/01/1970" -> [ValueError |-> TRUE, day |-> 0]
      [] date_str = "" -> [ValueError |-> TRUE, day |-> 0]

\* dt.date() of an instant, as a day number
DateOf(t) == t \div 86400

\* mutant: the ValueError of the date string is not caught
get_flashback_Uncaught(data, date_str) ==
    LET target_date == ParseDate(date_str)
    IN  IF target_date.ValueError \/ ParseRaises(data)
        THEN [status |-> "raised", date |-> date_str, streams |-> 0]
        ELSE LET day_streams ==
                     SelectSeq([i \in 1..Len(data) |-> i],
                               LAMBDA i : data[i].ts # NoTs /\ DateOf(data[i].ts) = target_date.day)
             IN  [status |-> IF day_streams = <<>> THEN "empty" ELSE "found",
                  date |-> date_str, streams |-> Len(day_streams)]

\* get_flashback(date_str) on the store: status "error" is the dictionary with
\* the 'error' key, "empty" the one with 'streams': 0 and the message,
\* "found" the day's figures (of which the counts and ratios are kept, the
\* top lists and clock times are not), "raised" an exception that leaves the
\* method: the loop parses the 'ts' of every record that has one before it
\* compares the date.
get_flashback(data, date_str) ==
    LET target_date == ParseDate(date_str)
    IN  IF target_date.ValueError
        THEN [status |-> "error", date |-> date_str, streams |-> 0]
        ELSE IF ParseRaises(data)
        THEN [status |-> "raised", date |-> date_str, streams |-> 0]
        ELSE LET day_streams ==
                     SelectSeq([i \in 1..Len(data) |-> i],
                               LAMBDA i : data[i].ts # NoTs /\ DateOf(data[i].ts) = target_date.day)
             IN  IF day_streams = <<>>
                 THEN [status |-> "empty", date |-> date_str, streams |-> 0]
                 ELSE [status |-> "found", date |-> date_str,
                       streams |-> Len(day_streams),
                       hours |-> RoundDiv(SumMs(data, day_streams) * 100, 3600000),
                       unique_artists |-> UniqueArtists(data, day_streams),
                       skipped |-> SkippedCount(data, day_streams),
                       skip_rate |-> RoundDiv(SkippedCount(data, day_streams) * 1000,
                                              Len(day_streams))]

---------------------------------------------------------------------------
(* The other gap scans: get_session_durations, get_binge_sessions and      *)
(* get_session_statistics.  Durations are whole seconds; a duration in     *)
(* minutes rounded to one decimal is kept in tenths of a minute.           *)

\* one pass of the loop of get_session_durations over a record;
\* sessions holds the durations of the closed sessions
DurationsStep(data, record, st) ==
    LET dt == data[record].ts
    IN  IF dt = NoTs THEN st
        ELSE IF st.current_session_start = NoTs
        THEN [st EXCEPT !.current_session_start = dt, !.current_session_end = dt]
        ELSE IF dt - st.current_session_end <= GapThresholdMinutes * 60
        THEN [st EXCEPT !.current_session_end = dt]
        ELSE [current_session_start |-> dt, current_session_end |-> dt,
              sessions |-> Append(st.sessions,
                                  st.current_session_end - st.current_session_start)]

RECURSIVE DurationsLoop(_, _, _, _)
\* the loop of get_session_durations over sorted_records[i..]
DurationsLoop(data, sorted_records, i, st) ==
    IF i > Len(sorted_records) THEN st
    ELSE DurationsLoop(data, sorted_records, i + 1,
                       DurationsStep(data, sorted_records[i], st))

\* the list `sessions` of get_session_durations after the flush
DurationsSessions(data) ==
    LET st == DurationsLoop(data, SortedRecords(data), 1,
                            [current_session_start |-> NoTs,
                             current_session_end |-> NoTs, sessions |-> <<>>])
    IN  IF st.current_session_start # NoTs /\ st.current_session_end # NoTs
        THEN Append(st.sessions, st.current_session_end - st.current_session_start)
        ELSE st.sessions

bucket_order == <<"0-15", "15-30", "30-60", "60-120", "120-180", "180+">>

\* the bucket of a duration
BucketOf(duration) ==
    IF duration < 15 * 60 THEN "0-15"
    ELSE IF duration < 30 * 60 THEN "15-30"
    ELSE IF duration < 60 * 60 THEN "30-60"
    ELSE IF duration < 120 * 60 THEN "60-120"
    ELSE IF duration < 180 * 60 THEN "120-180"
    ELSE "180+"

get_session_durations(data) ==
    LET sessions == DurationsSessions(data)
    IN  [b \in 1..Len(bucket_order) |->
            [duration_range |-> bucket_order[b],
             session_count |->
                 Cardinality({x \in 1..Len(sessions) :
                                 BucketOf(sessions[x]) = bucket_order[b]})]]

\* one pass of the loop of get_binge_sessions over a record
BingeStep(data, record, st) ==
    LET dt == data[record].ts
        current_session == st.current_session
    IN  IF dt = NoTs THEN st
        ELSE IF current_session.start = NoTs
        THEN [st EXCEPT !.current_session = [start |-> dt, end |-> dt, tracks |-> 1]]
        ELSE IF dt - current_session.end <= GapThresholdMinutes * 60
        THEN [st EXCEPT !.current_session.end = dt,
                        !.current_session.tracks = @ + 1]
        ELSE [current_session |-> [start |-> dt, end |-> dt, tracks |-> 1],
              sessions |-> Append(st.sessions, current_session)]

RECURSIVE BingeLoop(_, _, _, _)
BingeLoop(data, sorted_records, i, st) ==
    IF i > Len(sorted_records) THEN st
    ELSE BingeLoop(data, sorted_records, i + 1,
                   BingeStep(data, sorted_records[i], st))

\* the list `sessions` of get_binge_sessions after the flush
BingeSessions(data) ==
    LET st == BingeLoop(data, SortedRecords(data), 1,
                        [current_session |->
                             [start |-> NoTs, end |-> NoTs, tracks |-> 0],
                         sessions |-> <<>>])
    IN  IF st.current_session.start # NoTs
        THEN Append(st.sessions, st.current_session)
        ELSE st.sessions

\* strftime('%Y-%m-%d %H:%M')
MinuteFormat(t) == <<t \div 86400, (t \div 3600) % 24, (t \div 60) % 60>>

get_binge_sessions(data, limit) ==
    LET sessions == BingeSessions(data)
        duration_minutes ==
            [x \in 1..Len(sessions) |->
                <<RoundDiv((sessions[x].end - sessions[x].start) * 10, 60)>>]
        order == SortBy([x \in 1..Len(sessions) |-> x], duration_minutes, TRUE)
        top == SubSeq(order, 1, Min2(limit, Len(order)))
    IN  [x \in 1..Len(top) |->
            [session_date |-> MinuteFormat(sessions[top[x]].start),
             duration_minutes |-> duration_minutes[top[x]][1],
             track_count |-> sessions[top[x]].tracks]]

\* mutant: a gap of exactly 30 minutes closes the session
StatisticsStep_Strict(data, record, st) ==
    LET dt == data[record].ts
        current_session == st.current_session
    IN  IF dt = NoTs THEN st
        ELSE IF current_session.start = NoTs
        THEN [st EXCEPT !.current_session = [start |-> dt, end |-> dt, tracks |-> 1]]
        ELSE IF dt - current_session.end < GapThresholdMinutes * 60
        THEN [st EXCEPT !.current_session.end = dt,
                        !.current_session.tracks = @ + 1]
        ELSE [current_session |-> [start |-> dt, end |-> dt, tracks |-> 1],
              sessions |-> Append(st.sessions, current_session)]

\* one pass of the loop of get_session_statistics over a record
StatisticsStep(data, record, st) ==
    LET dt == data[record].ts
        current_session == st.current_session
    IN  IF dt = NoTs THEN st
        ELSE IF current_session.start = NoTs
        THEN [st EXCEPT !.current_session = [start |-> dt, end |-> dt, tracks |-> 1]]
        ELSE IF dt - current_session.end <= GapThresholdMinutes * 60
        THEN [st EXCEPT !.current_session.end = dt,
                        !.current_session.tracks = @ + 1]
        ELSE [current_session |-> [start |-> dt, end |-> dt, tracks |-> 1],
              sessions |-> Append(st.sessions, current_session)]

RECURSIVE StatisticsLoop(_, _, _, _)
StatisticsLoop(data, sorted_records, i, st) ==
    IF i > Len(sorted_records) THEN st
    ELSE StatisticsLoop(data, sorted_records, i + 1,
                        StatisticsStep(data, sorted_records[i], st))

\* the list `sessions` of get_session_statistics after the flush
StatisticsSessions(data) ==
    LET st == StatisticsLoop(data, SortedRecords(data), 1,
                             [current_session |->
                                  [start |-> NoTs, end |-> NoTs, tracks |-> 0],
                              sessions |-> <<>>])
    IN  IF st.current_session.start # NoTs
        THEN Append(st.sessions, st.current_session)
        ELSE st.sessions

\* statistics.median of a non-empty list, times 2
TwiceMedian(values) ==
    LET sorted == SortBy([x \in 1..Len(values) |-> x],
                         [x \in 1..Len(values) |-> <<values[x]>>], FALSE)
        n == Len(values)
    IN  IF n % 2 = 1 THEN 2 * values[sorted[(n + 1) \div 2]]
        ELSE values[sorted[n \div 2]] + values[sorted[n \div 2 + 1]]

\* max of a non-empty list
MaxOf(values) ==
    CHOOSE m \in Range(values) : \A v \in Range(values) : v <= m

get_session_statistics(data) ==
    LET sessions == StatisticsSessions(data)
        n == Len(sessions)
        durations == [x \in 1..n |-> sessions[x].end - sessions[x].start]
        track_counts == [x \in 1..n |-> sessions[x].tracks]
    IN  [total_sessions |-> n,
         avg_duration_minutes |->
             IF n > 0 THEN RoundDiv(SumRange(durations, 1, n) * 10, 60 * n) ELSE 0,
         median_duration_minutes |->
             IF n > 0 THEN RoundDiv(TwiceMedian(durations) * 10, 120) ELSE 0,
         avg_tracks_per_session |->
             IF n > 0 THEN RoundDiv(SumRange(track_counts, 1, n) * 10, n) ELSE 0,
         longest_session_minutes |->
             IF n > 0 THEN RoundDiv(MaxOf(durations) * 10, 60) ELSE 0]

---------------------------------------------------------------------------
(* Listening streaks: get_listening_streaks.  A date is the number of its  *)
(* day since the epoch.                                                    *)

\* date.isoformat(): one fixed-width field per date
DateIso(d) == <<d>>

\* the keys of daily_streams in insertion order: the dates of the
\* timestamped records, each at its first occurrence
DailyKeys(data) ==
    LET first == SelectSeq([i \in 1..Len(data) |-> i],
                     LAMBDA i : /\ data[i].ts # NoTs
                                /\ \A j \in 1..(i - 1) :
                                       data[j].ts = NoTs
                                       \/ DateOf(data[j].ts) # DateOf(data[i].ts))
    IN  [x \in 1..Len(first) |-> DateOf(data[first[x]].ts)]

\* daily_streams[d]
DailyStreams(data, d) ==
    Cardinality({i \in 1..Len(data) : data[i].ts # NoTs /\ DateOf(data[i].ts) = d})

\* sorted(daily_streams.keys())
SortedDates(data) ==
    LET keys == DailyKeys(data)
        order == SortBy([x \in 1..Len(keys) |-> x],
                        [x \in 1..Len(keys) |-> <<keys[x]>>], FALSE)
    IN  [x \in 1..Len(order) |-> keys[order[x]]]

\* one pass of the streak loop at index i; st is [current_streak, streaks]
StreakStep(data, sorted_dates, i, st) ==
    LET current_streak == st.current_streak
    IN  IF sorted_dates[i] - sorted_dates[i - 1] = 1
        THEN [st EXCEPT !.current_streak.end = sorted_dates[i],
                        !.current_streak.streams =
                            @ + DailyStreams(data, sorted_dates[i])]
        ELSE [current_streak |->
                  [start |-> sorted_dates[i], end |-> sorted_dates[i],
                   streams |-> DailyStreams(data, sorted_dates[i])],
              streaks |->
                  IF current_streak.end - current_streak.start >= MinStreakSpan
                  THEN Append(st.streaks, current_streak)
                  ELSE st.streaks]

RECURSIVE StreakLoop(_, _, _, _)
\* for i in range(1, len(sorted_dates)), on 1-based positions
StreakLoop(data, sorted_dates, i, st) ==
    IF i > Len(sorted_dates) THEN st
    ELSE StreakLoop(data, sorted_dates, i + 1, StreakStep(data, sorted_dates, i, st))

\* mutant: the streak that is open when the dates run out is not saved
FlushStreak_Dropped(st) == st.streaks

\* the save after the loop
FlushStreak(st) ==
    IF st.current_streak.end - st.current_streak.start >= MinStreakSpan
    THEN Append(st.streaks, st.current_streak)
    ELSE st.streaks

get_listening_streaks(data, limit) ==
    LET sorted_dates == SortedDates(data)
    IN  IF sorted_dates = <<>> THEN <<>>
        ELSE LET streaks ==
                     FlushStreak(
                         StreakLoop(data, sorted_dates, 2,
                                    [current_streak |->
                                         [start |-> sorted_dates[1],
                                          end |-> sorted_dates[1],
                                          streams |-> DailyStreams(data, sorted_dates[1])],
                                     streaks |-> <<>>]))
                 length_days == [x \in 1..Len(streaks) |->
                                    <<streaks[x].end - streaks[x].start + 1>>]
                 order == SortBy([x \in 1..Len(streaks) |-> x], length_days, TRUE)
                 top == SubSeq(order, 1, Min2(limit, Len(order)))
             IN  [x \in 1..Len(top) |->
                     [length_days |-> length_days[top[x]][1],
                      start_date |-> DateIso(streaks[top[x]].start),
                      end_date |-> DateIso(streaks[top[x]].end),
                      total_streams |-> streaks[top[x]].streams]]

---------------------------------------------------------------------------
(* Inputs *)

\* gaps of 0 s, of exactly 30 minutes (0 to 1800) and of one second more
\* (1800 to 3601)
Stamps == {0, 1800, 3601}

Rec(t) == [ts |-> t, artist |-> "a1", skipped |-> FALSE, ms_played |-> 180000]

\* the event lists of up to maxLen records with 'ts' values from tss
EventListsOver(maxLen, tss) ==
    UNION {[1..n -> {Rec(t) : t \in tss}] : n \in 0..maxLen}

EventLists(maxLen) == EventListsOver(maxLen, Stamps \cup {NoTs})

\* event lists of one burst (every play stamped with the same second) in
\* which each play has one of two artist names or none, as an episode has
ArtistLists(maxLen) ==
    UNION {[1..n -> {[Rec(60) EXCEPT !.artist = a] : a \in {"a1", "a2", NoArtist}}] :
              n \in 1..maxLen}

RECURSIVE Orders(_)
\* every order in which the elements of a set can arrive
Orders(S) ==
    IF S = {} THEN {<<>>}
    ELSE UNION {{<<x>> \o rest : rest \in Orders(S \ {x})} : x \in S}

\* two bursts of 4 plays, 5 minutes from one play to the next, and 45 minutes
\* from the last play of the first burst to the first play of the second
TwoBursts ==
    {b * (3 * 300 + 45 * 60) + j * 300 : b \in 0..1, j \in 0..3}

File(recs) == [ok |-> TRUE, recs |-> recs]
CorruptFile == [ok |-> FALSE, recs |-> <<>>]

\* the ways an event list lies on disk
Disks(evs) ==
    {<<File(evs)>>}
    \cup (IF evs = <<>> THEN {<<>>} ELSE {})
    \cup (IF Len(evs) <= MaxSplitLen
          THEN {<<File(evs), CorruptFile>>, <<CorruptFile, File(evs)>>}
               \cup {<<File(SubSeq(evs, 1, c)), File(SubSeq(evs, c + 1, Len(evs)))>> :
                        c \in 0..Len(evs)}
          ELSE {})

\* a store of n bursts of 3 plays 5 minutes apart, one burst every period
\* seconds, in arrival order or reversed
Burst(n, period, reversed) ==
    LET at(x) == ((x - 1) \div 3) * period + ((x - 1) % 3) * 300
    IN  [x \in 1..(3 * n) |->
            [ts |-> IF reversed THEN at(3 * n + 1 - x) ELSE at(x),
             artist |-> IF x % 2 = 0 THEN "a1" ELSE "a2",
             skipped |-> FALSE,
             ms_played |-> 180000]]

\* no session, one session, the counts on both sides of each multiple of 10,
\* and one count past the cap of 8 clusters (95 // 10 = 9)
SessionCounts ==
    {0, 1} \cup UNION {{MinSessions * j - 1, MinSessions * j} : j \in 1..MaxTens}
LargeCounts == {MinSessions * (MaxClusters + 1) + 5}

\* one burst every 55 minutes (a 45 minute pause after each burst), stored
\* newest first; one burst a week gives every session the same feature row
BigDisks ==
    {<<File(Burst(n, 3300, TRUE))>> : n \in SessionCounts \cup LargeCounts}
    \cup {<<File(Burst(MinSessions, 604800, FALSE))>>}

\* silhouette scores in thousandths, by k; the score is above -1 whenever it
\* is defined
ScoreFn(p, q, par) ==
    [k \in 2..MaxClusters |->
        IF k \in {p, q} THEN 600 ELSE IF k % 2 = par THEN 300 ELSE -200]

\* the k at which the score peaks
Peaks == {2, 3, 5, MaxClusters}

\* the last one scores every k just above -1, the lowest a silhouette score
\* gets
Oracles ==
    {[score |-> ScoreFn(p, MaxClusters, 0), variant |-> v] : p \in Peaks, v \in 0..2}
    \cup {[score |-> ScoreFn(p, p, 1), variant |-> 0] : p \in Peaks}
    \cup {[score |-> [k \in 2..MaxClusters |-> InitialBestScore + 1], variant |-> 0]}

DefaultOracle == [score |-> ScoreFn(2, 2, 0), variant |-> 0]

Limits == {1, MaxLimit, DefaultLimit}

\* the limits passed to get_binge_sessions: one that cuts, the default,
\* the largest the route lets through
BingeLimits == {1, DefaultBingeLimit, MaxBingeLimit}

\* the date strings passed to get_flashback: the day of the events, the same
\* day with a time, the day after, and three strings that are no ISO date
DateStrings ==
    {"1970-01-01", "1970-01-01T23:59:59", "1970-01-02", "1970-13-01",
     "01/01/1970", ""}

\* the limits passed to get_listening_streaks
StreakLimits == {1, DefaultStreakLimit, MaxBingeLimit}

RECURSIVE DayEvents(_, _, _)
\* the events of the days d..MaxDay that are in `days`, oldest first: one
\* event at midnight, and on a day in `busy` one more in the last second of
\* the day and a record without timestamp
DayEvents(days, busy, d) ==
    IF d > MaxDay THEN <<>>
    ELSE (IF d \notin days THEN <<>>
          ELSE IF d \in busy
               THEN <<Rec(d * 86400), Rec(d * 86400 + 86399), Rec(NoTs)>>
               ELSE <<Rec(d * 86400)>>)
         \o DayEvents(days, busy, d + 1)

Reverse(s) == [i \in 1..Len(s) |-> s[Len(s) + 1 - i]]

\* event lists by listening days: any set of days, the even days, the odd
\* days or no day busy, oldest or newest first
StreakEventLists ==
    {IF reversed THEN Reverse(DayEvents(days, {d \in days : d % 2 = par}, 0))
                 ELSE DayEvents(days, {d \in days : d % 2 = par}, 0) :
        days \in SUBSET (0..MaxDay), par \in 0..2, reversed \in BOOLEAN}

\* ret: the call made last, the limit it was given, whether it found the
\* store loaded, whether its load raised, whether it raised after the load,
\* and what it returned
NoRet ==
    [op |-> "none", limit |-> 0, was_loaded |-> FALSE, load_raised |-> FALSE,
     raised |-> FALSE, out |-> <<>>]

Init ==
    /\ \E evs \in EventListsOver(MaxStoreEvents, Stamps \cup {NoTs, BadTs})
                      \cup ArtistLists(MaxStoreEvents) :
           disk \in Disks(evs)
    /\ _data = <<>>
    /\ _loaded = FALSE
    /\ oracle = DefaultOracle
    /\ ret = NoRet
    /\ threads = NoThreads
    /\ runner = NoRunner
    /\ fetcher = NoFetcher

InitSessions ==
    /\ \E evs \in EventLists(MaxEvents) : disk = <<File(evs)>>
    /\ _data = <<>>
    /\ _loaded = FALSE
    /\ oracle = DefaultOracle
    /\ ret = NoRet
    /\ threads = NoThreads
    /\ runner = NoRunner
    /\ fetcher = NoFetcher

\* the two bursts in one file, in any arrival order
InitBursts ==
    /\ \E order \in Orders(TwoBursts) :
           disk = <<File([i \in 1..Len(order) |-> Rec(order[i])])>>
    /\ _data = <<>>
    /\ _loaded = FALSE
    /\ oracle = DefaultOracle
    /\ ret = NoRet
    /\ threads = NoThreads
    /\ runner = NoRunner
    /\ fetcher = NoFetcher

InitCluster ==
    /\ disk \in BigDisks
    /\ _data = <<>>
    /\ _loaded = FALSE
    /\ oracle \in Oracles
    /\ ret = NoRet
    /\ threads = NoThreads
    /\ runner = NoRunner
    /\ fetcher = NoFetcher

---------------------------------------------------------------------------
(* Actions: one per call into the service *)

\* load_data()
LoadData ==
    LET st == load_data(disk, _data, _loaded)
    IN  /\ _data' = st.data
        /\ _loaded' = st.loaded
        /\ ret' = [op |-> "load_data", limit |-> 0, was_loaded |-> _loaded,
                   load_raised |-> st.raised, raised |-> FALSE,
                   out |-> <<>>]
        /\ UNCHANGED <<disk, oracle, threads, runner, fetcher>>

\* _build_sessions()
BuildSessions ==
    LET st == load_data(disk, _data, _loaded)
    IN  /\ _data' = st.data
        /\ _loaded' = st.loaded
        /\ ret' = [op |-> "_build_sessions", limit |-> 0, was_loaded |-> _loaded,
                   load_raised |-> st.raised,
                   raised |-> ~st.raised /\ ParseRaises(st.data),
                   out |-> IF st.raised \/ ParseRaises(st.data) THEN <<>>
                           ELSE _build_sessions(st.data)]
        /\ UNCHANGED <<disk, oracle, threads, runner, fetcher>>

\* mutant: KMeans is built without random_state, so a call fits with the
\* state of the global generator and leaves it in another state
ClusterSessions_Unseeded ==
    LET st == load_data(disk, _data, _loaded)
    IN  \E clustering_result \in {_cluster_sessions(st.data, oracle)} :
            /\ _data' = IF st.raised THEN st.data
                           ELSE StoreAfterClustering(st.data, clustering_result)
            /\ _loaded' = st.loaded
            /\ ret' = [op |-> "_cluster_sessions", limit |-> 0,
                       was_loaded |-> _loaded, load_raised |-> st.raised,
                       raised |-> ~st.raised /\ clustering_result.status = "raised",
                       out |-> IF st.raised THEN <<>> ELSE clustering_result]
            /\ oracle' \in Oracles \ {oracle}
            /\ UNCHANGED <<disk, threads, runner, fetcher>>

\* _cluster_sessions()
ClusterSessions ==
    LET st == load_data(disk, _data, _loaded)
    IN  \E clustering_result \in {_cluster_sessions(st.data, oracle)} :
            /\ _data' = IF st.raised THEN st.data
                           ELSE StoreAfterClustering(st.data, clustering_result)
            /\ _loaded' = st.loaded
            /\ ret' = [op |-> "_cluster_sessions", limit |-> 0,
                       was_loaded |-> _loaded, load_raised |-> st.raised,
                       raised |-> ~st.raised /\ clustering_result.status = "raised",
                       out |-> IF st.raised THEN <<>> ELSE clustering_result]
            /\ UNCHANGED <<disk, oracle, threads, runner, fetcher>>

\* GET /api/sessions/clusters
GetSessionClusters ==
    LET st == load_data(disk, _data, _loaded)
    IN  \E clustering_result \in {_cluster_sessions(st.data, oracle)} :
            /\ _data' = IF st.raised THEN st.data
                           ELSE StoreAfterClustering(st.data, clustering_result)
            /\ _loaded' = st.loaded
            /\ ret' = [op |-> "get_session_clusters", limit |-> 0,
                       was_loaded |-> _loaded, load_raised |-> st.raised,
                       raised |-> ~st.raised /\ clustering_result.status = "raised",
                       out |-> IF st.raised THEN <<>>
                               ELSE get_session_clusters(clustering_result)]
            /\ UNCHANGED <<disk, oracle, threads, runner, fetcher>>

\* GET /api/sessions/centroids
GetSessionCentroids ==
    LET st == load_data(disk, _data, _loaded)
    IN  \E clustering_result \in {_cluster_sessions(st.data, oracle)} :
            /\ _data' = IF st.raised THEN st.data
                           ELSE StoreAfterClustering(st.data, clustering_result)
            /\ _loaded' = st.loaded
            /\ ret' = [op |-> "get_session_centroids", limit |-> 0,
                       was_loaded |-> _loaded, load_raised |-> st.raised,
                       raised |-> ~st.raised /\ clustering_result.status = "raised",
                       out |-> IF st.raised THEN <<>>
                               ELSE get_session_centroids(clustering_result)]
            /\ UNCHANGED <<disk, oracle, threads, runner, fetcher>>

\* GET /api/sessions/assignments?limit=...
GetSessionAssignments ==
    LET st == load_data(disk, _data, _loaded)
    IN  \E clustering_result \in {_cluster_sessions(st.data, oracle)} :
        \E limit \in Limits :
            /\ _data' = IF st.raised THEN st.data
                           ELSE StoreAfterClustering(st.data, clustering_result)
            /\ _loaded' = st.loaded
            /\ ret' = [op |-> "get_session_assignments", limit |-> limit,
                       was_loaded |-> _loaded, load_raised |-> st.raised,
                       raised |-> ~st.raised /\ clustering_result.status = "raised",
                       out |-> IF st.raised THEN <<>>
                               ELSE get_session_assignments(clustering_result, limit)]
            /\ UNCHANGED <<disk, oracle, threads, runner, fetcher>>

\* GET /api/milestones/flashback?date=...
GetFlashback ==
    \E date_str \in DateStrings :
        LET st == load_data(disk, _data, _loaded)
        IN  \E result \in {get_flashback(st.data, date_str)} :
                /\ _data' = st.data
                /\ _loaded' = st.loaded
                /\ ret' = [op |-> "get_flashback", limit |-> 0,
                           was_loaded |-> _loaded, load_raised |-> st.raised,
                           raised |-> ~st.raised /\ result.status = "raised",
                           out |-> IF st.raised THEN <<>> ELSE result]
                /\ UNCHANGED <<disk, oracle, threads, runner, fetcher>>

\* the environment drops one more export file into DATA_DIR
AddFile ==
    /\ Len(disk) < MaxFiles
    /\ disk' = Append(disk, File(<<Rec(0)>>))
    /\ ret' = [NoRet EXCEPT !.op = "add_file"]
    /\ UNCHANGED <<_data, _loaded, oracle, threads, runner, fetcher>>

Next ==
    \/ LoadData
    \/ BuildSessions
    \/ ClusterSessions
    \/ GetSessionClusters
    \/ GetSessionCentroids
    \/ GetSessionAssignments
    \/ GetFlashback
    \/ AddFile

Spec == Init /\ [][Next]_vars

\* the session builder alone, on every short event list
NextSessions == LoadData \/ BuildSessions

SpecSessions == InitSessions /\ [][NextSessions]_vars

\* the session builder on the two bursts
SpecBursts == InitBursts /\ [][NextSessions]_vars

\* the clustering calls on the large stores
NextCluster ==
    \/ LoadData
    \/ ClusterSessions
    \/ GetSessionClusters
    \/ GetSessionCentroids
    \/ GetSessionAssignments

SpecCluster == InitCluster /\ [][NextCluster]_vars

\* GET /api/patterns/session-durations
GetSessionDurations ==
    LET st == load_data(disk, _data, _loaded)
    IN  /\ _data' = st.data
        /\ _loaded' = st.loaded
        /\ ret' = [op |-> "get_session_durations", limit |-> 0,
                   was_loaded |-> _loaded, load_raised |-> st.raised,
                   raised |-> ~st.raised /\ ParseRaises(st.data),
                   out |-> IF st.raised \/ ParseRaises(st.data) THEN <<>>
                           ELSE get_session_durations(st.data)]
        /\ UNCHANGED <<disk, oracle, threads, runner, fetcher>>

\* GET /api/patterns/binge-sessions?limit=...
GetBingeSessions ==
    \E limit \in BingeLimits :
        LET st == load_data(disk, _data, _loaded)
        IN  /\ _data' = st.data
            /\ _loaded' = st.loaded
            /\ ret' = [op |-> "get_binge_sessions", limit |-> limit,
                       was_loaded |-> _loaded, load_raised |-> st.raised,
                       raised |-> ~st.raised /\ ParseRaises(st.data),
                       out |-> IF st.raised \/ ParseRaises(st.data) THEN <<>>
                               ELSE get_binge_sessions(st.data, limit)]
            /\ UNCHANGED <<disk, oracle, threads, runner, fetcher>>

\* GET /api/patterns/session-statistics
GetSessionStatistics ==
    LET st == load_data(disk, _data, _loaded)
    IN  /\ _data' = st.data
        /\ _loaded' = st.loaded
        /\ ret' = [op |-> "get_session_statistics", limit |-> 0,
                   was_loaded |-> _loaded, load_raised |-> st.raised,
                   raised |-> ~st.raised /\ ParseRaises(st.data),
                   out |-> IF st.raised \/ ParseRaises(st.data) THEN <<>>
                           ELSE get_session_statistics(st.data)]
        /\ UNCHANGED <<disk, oracle, threads, runner, fetcher>>

\* the four gap scans on every event list of up to MaxScanEvents events
InitScans ==
    /\ \E evs \in EventLists(MaxScanEvents) : disk = <<File(evs)>>
    /\ _data = <<>>
    /\ _loaded = FALSE
    /\ oracle = DefaultOracle
    /\ ret = NoRet
    /\ threads = NoThreads
    /\ runner = NoRunner
    /\ fetcher = NoFetcher

NextScans ==
    \/ LoadData
    \/ BuildSessions
    \/ GetSessionDurations
    \/ GetBingeSessions
    \/ GetSessionStatistics

SpecScans == InitScans /\ [][NextScans]_vars

\* GET /api/patterns/listening-streaks?limit=...
GetListeningStreaks ==
    \E limit \in StreakLimits :
        LET st == load_data(disk, _data, _loaded)
        IN  /\ _data' = st.data
            /\ _loaded' = st.loaded
            /\ ret' = [op |-> "get_listening_streaks", limit |-> limit,
                       was_loaded |-> _loaded, load_raised |-> st.raised,
                       raised |-> ~st.raised /\ ParseRaises(st.data),
                       out |-> IF st.raised \/ ParseRaises(st.data) THEN <<>>
                               ELSE get_listening_streaks(st.data, limit)]
            /\ UNCHANGED <<disk, oracle, threads, runner, fetcher>>

\* the streak scan on stores laid out by listening days
InitStreaks ==
    /\ \E evs \in StreakEventLists : disk = <<File(evs)>>
    /\ _data = <<>>
    /\ _loaded = FALSE
    /\ oracle = DefaultOracle
    /\ ret = NoRet
    /\ threads = NoThreads
    /\ runner = NoRunner
    /\ fetcher = NoFetcher

NextStreaks == LoadData \/ GetListeningStreaks

SpecStreaks == InitStreaks /\ [][NextStreaks]_vars

---------------------------------------------------------------------------
(* Concurrent callers of the one store object (spotify_data).  A caller    *)
(* takes one step per statement of load_data that reads or writes the      *)
(* shared fields; the list all_data and the file list are its own.         *)

Threads == 1..MaxThreads

\* a caller before its first statement; kind is the method it calls
NewThread(kind) ==
    [kind |-> kind, pc |-> IF kind = "load_data" THEN "check" ELSE "query",
     audio_files |-> <<>>, all_data |-> <<>>, passed_check |-> FALSE,
     saw_loaded |-> FALSE, seen |-> <<>>]

\* where a caller continues when its load_data returns
AfterLoad(t) == IF threads[t].kind = "load_data" THEN "done" ELSE "read"

InitThreads ==
    /\ \E evs \in EventListsOver(MaxSplitLen, {0, 1800}) : disk \in Disks(evs)
    /\ _data = <<>>
    /\ _loaded = FALSE
    /\ oracle = DefaultOracle
    /\ ret = NoRet
    /\ threads \in [Threads -> {NewThread("load_data"), NewThread("_build_sessions")}]
    /\ runner = NoRunner
    /\ fetcher = NoFetcher

\* a query method: if not self._loaded: self.load_data()
QueryCheck(t) ==
    /\ threads[t].pc = "query"
    /\ threads' = [threads EXCEPT ![t].pc = IF _loaded THEN "read" ELSE "check",
                                  ![t].saw_loaded = _loaded]
    /\ UNCHANGED <<disk, _data, _loaded, oracle, ret, runner, fetcher>>

\* load_data: if self._loaded: return
CheckLoaded(t) ==
    /\ threads[t].pc = "check"
    /\ threads' = [threads EXCEPT ![t].pc = IF _loaded THEN AfterLoad(t) ELSE "glob",
                                  ![t].passed_check = ~_loaded]
    /\ UNCHANGED <<disk, _data, _loaded, oracle, ret, runner, fetcher>>

\* audio_files = sorted(DATA_DIR.glob(...)); all_data = []
Glob(t) ==
    /\ threads[t].pc = "glob"
    /\ threads' = [threads EXCEPT ![t].audio_files = disk,
                                  ![t].all_data = <<>>,
                                  ![t].pc = IF disk = <<>> THEN "publish"
                                            ELSE "read_file"]
    /\ UNCHANGED <<disk, _data, _loaded, oracle, ret, runner, fetcher>>

\* mutant: the records are appended to self._data itself, all_data being
\* another name of that list
ReadFile_InPlace(t) ==
    /\ threads[t].pc = "read_file"
    /\ LET file == Head(threads[t].audio_files)
           rest == Tail(threads[t].audio_files)
       IN  IF ~file.ok
           THEN /\ threads' = [threads EXCEPT ![t].pc = "raised"]
                /\ UNCHANGED _data
           ELSE /\ threads' = [threads EXCEPT
                        ![t].all_data = _data \o file.recs,
                        ![t].audio_files = rest,
                        ![t].pc = IF rest = <<>> THEN "publish" ELSE "read_file"]
                /\ _data' = _data \o file.recs
    /\ UNCHANGED <<disk, _loaded, oracle, ret, runner, fetcher>>

\* one turn of the file loop: data = json.load(f); all_data.extend(data)
ReadFile(t) ==
    /\ threads[t].pc = "read_file"
    /\ LET file == Head(threads[t].audio_files)
           rest == Tail(threads[t].audio_files)
       IN  IF ~file.ok
           THEN /\ threads' = [threads EXCEPT ![t].pc = "raised"]
                /\ UNCHANGED _data
           ELSE /\ threads' = [threads EXCEPT
                        ![t].all_data = threads[t].all_data \o file.recs,
                        ![t].audio_files = rest,
                        ![t].pc = IF rest = <<>> THEN "publish" ELSE "read_file"]
                /\ UNCHANGED _data
    /\ UNCHANGED <<disk, _loaded, oracle, ret, runner, fetcher>>

\* mutant: the flag is set before the collection is stored
Publish_FlagFirst(t) ==
    /\ threads[t].pc \in {"publish", "set_loaded"}
    /\ IF threads[t].pc = "publish"
       THEN /\ _loaded' = TRUE
            /\ threads' = [threads EXCEPT ![t].pc = "set_loaded"]
            /\ UNCHANGED _data
       ELSE /\ _data' = threads[t].all_data
            /\ threads' = [threads EXCEPT ![t].pc = AfterLoad(t)]
            /\ UNCHANGED _loaded
    /\ UNCHANGED <<disk, oracle, ret, runner, fetcher>>

\* self._data = all_data, then self._loaded = True: two steps
Publish(t) ==
    /\ threads[t].pc \in {"publish", "set_loaded"}
    /\ IF threads[t].pc = "publish"
       THEN /\ _data' = threads[t].all_data
            /\ threads' = [threads EXCEPT ![t].pc = "set_loaded"]
            /\ UNCHANGED _loaded
       ELSE /\ _loaded' = TRUE
            /\ threads' = [threads EXCEPT ![t].pc = AfterLoad(t)]
            /\ UNCHANGED _data
    /\ UNCHANGED <<disk, oracle, ret, runner, fetcher>>

\* the query method reads self._data
ReadStore(t) ==
    /\ threads[t].pc = "read"
    /\ threads' = [threads EXCEPT ![t].seen = _data, ![t].pc = "done"]
    /\ UNCHANGED <<disk, _data, _loaded, oracle, ret, runner, fetcher>>

NextThreads ==
    \E t \in Threads :
        \/ QueryCheck(t)
        \/ CheckLoaded(t)
        \/ Glob(t)
        \/ ReadFile(t)
        \/ Publish(t)
        \/ ReadStore(t)

SpecThreads == InitThreads /\ [][NextThreads]_vars

---------------------------------------------------------------------------
(* The master script src/run_all_analyses.py.  runner is                   *)
(*   [pc, i, results, launched, running]                                   *)
(* i: position in `scripts` of the script the loop is at, results: the     *)
(* dictionary of main, launched: the scripts handed to subprocess.run so   *)
(* far, running: the child processes that have not exited.                 *)

scripts ==
    <<"explore_data.py", "listening_patterns.py", "artist_discovery.py",
      "detailed_stats.py", "advanced_visualizations.py", "google_charts_viz.py",
      "google_charts_advanced.py">>

\* results[script] = status
SetResult(results, script, status) ==
    [s \in DOMAIN results \cup {script} |->
        IF s = script THEN status ELSE results[s]]

\* how a child process ends for subprocess.run(..., check=True): exit
\* status 0, CalledProcessError, or another exception (the interpreter
\* could not be started)
ChildOutcomes == {"exit_0", "CalledProcessError", "Exception"}

InitRunner ==
    /\ disk = <<>>
    /\ _data = <<>>
    /\ _loaded = FALSE
    /\ oracle = DefaultOracle
    /\ ret = NoRet
    /\ threads = NoThreads
    /\ runner = [pc |-> "start", i |-> 0, results |-> <<>>, launched |-> <<>>,
                 running |-> {}]
    /\ fetcher = NoFetcher

\* main up to the loop: scripts = [...]; results = {}
StartMain ==
    /\ runner.pc = "start"
    /\ runner' = [runner EXCEPT !.pc = "loop", !.i = 1]
    /\ UNCHANGED <<disk, _data, _loaded, oracle, ret, threads, fetcher>>

\* a turn of the loop on a script whose file does not exist
SkipMissing ==
    /\ runner.pc = "loop"
    /\ runner.i <= Len(scripts)
    /\ runner' = [runner EXCEPT
                      !.results = SetResult(@, scripts[runner.i], "NOT FOUND"),
                      !.i = @ + 1]
    /\ UNCHANGED <<disk, _data, _loaded, oracle, ret, threads, fetcher>>

\* a turn of the loop on a script that exists: run_script enters
\* subprocess.run, which starts the child and waits for it
LaunchScript ==
    /\ runner.pc = "loop"
    /\ runner.i <= Len(scripts)
    /\ runner' = [runner EXCEPT
                      !.pc = "waiting",
                      !.launched = Append(@, scripts[runner.i]),
                      !.running = @ \cup {scripts[runner.i]}]
    /\ UNCHANGED <<disk, _data, _loaded, oracle, ret, threads, fetcher>>

\* mutant: run_script has no except clause for CalledProcessError, which
\* leaves main
FinishScript_Uncaught ==
    /\ runner.pc = "waiting"
    /\ \E outcome \in ChildOutcomes :
           IF outcome = "CalledProcessError"
           THEN runner' = [runner EXCEPT !.pc = "aborted",
                                         !.running = @ \ {scripts[runner.i]}]
           ELSE runner' = [runner EXCEPT
                    !.pc = "loop",
                    !.running = @ \ {scripts[runner.i]},
                    !.results = SetResult(@, scripts[runner.i],
                                          IF outcome = "exit_0" THEN "SUCCESS"
                                          ELSE "FAILED"),
                    !.i = @ + 1]
    /\ UNCHANGED <<disk, _data, _loaded, oracle, ret, threads, fetcher>>

\* the child has ended: run_script returns True or False and main stores
\* the status
FinishScript ==
    /\ runner.pc = "waiting"
    /\ \E outcome \in ChildOutcomes :
           runner' = [runner EXCEPT
               !.pc = "loop",
               !.running = @ \ {scripts[runner.i]},
               !.results = SetResult(@, scripts[runner.i],
                                     IF outcome = "exit_0" THEN "SUCCESS"
                                     ELSE "FAILED"),
               !.i = @ + 1]
    /\ UNCHANGED <<disk, _data, _loaded, oracle, ret, threads, fetcher>>

\* after the loop: the summary is printed
PrintSummary ==
    /\ runner.pc = "loop"
    /\ runner.i > Len(scripts)
    /\ runner' = [runner EXCEPT !.pc = "done"]
    /\ UNCHANGED <<disk, _data, _loaded, oracle, ret, threads, fetcher>>

NextRunner ==
    \/ StartMain
    \/ SkipMissing
    \/ LaunchScript
    \/ FinishScript
    \/ PrintSummary

\* main is sequential and every child process ends
SpecRunner == InitRunner /\ [][NextRunner]_vars /\ WF_vars(NextRunner)

---------------------------------------------------------------------------
(* The lyrics fetcher src/musixmatch.py.  A track URI is a number; fetcher *)
(* is [pc, num_tracks, random_tracks, idx, results, failed_tracks,         *)
(* successful, failed], idx being the number of tracks processed.          *)

\* what the two services answer for a track: Spotify gives no track, a
\* track without ISRC or a track with ISRC; Musixmatch gives lyrics or none
SpotifyAnswers == {"error", "no_isrc", "isrc"}
MusixmatchAnswers == {"none", "lyrics"}

\* process_single_track: None, or the track info with its lyrics
process_single_track(track_uri, spotify, musixmatch) ==
    IF spotify = "error" THEN [none |-> TRUE]
    ELSE IF spotify = "no_isrc" THEN [none |-> TRUE]
    ELSE IF musixmatch = "none"
    THEN [none |-> FALSE, track_uri |-> track_uri, lyrics |-> "None"]
    ELSE [none |-> FALSE, track_uri |-> track_uri, lyrics |-> "lyrics"]

\* mutant: a track whose info came without lyrics is counted as failed but
\* not put on the failed list
LoopBody_Unlisted(f, track_uri, result) ==
    IF ~result.none /\ result.lyrics # "None"
    THEN [f EXCEPT !.results = Append(@, result),
                   !.successful = @ + 1,
                   !.idx = @ + 1]
    ELSE [f EXCEPT !.failed_tracks =
                       IF ~result.none THEN @
                       ELSE Append(@, [track_uri |-> track_uri,
                                       reason |-> "Failed to fetch track info from Spotify"]),
                   !.failed = @ + 1,
                   !.idx = @ + 1]

\* the body of the processing loop, given what process_single_track returned
LoopBody(f, track_uri, result) ==
    IF ~result.none /\ result.lyrics # "None"
    THEN [f EXCEPT !.results = Append(@, result),
                   !.successful = @ + 1,
                   !.idx = @ + 1]
    ELSE [f EXCEPT !.failed_tracks =
                       IF ~result.none
                       THEN Append(@, [track_uri |-> result.track_uri,
                                       reason |-> "No lyrics found"])
                       ELSE Append(@, [track_uri |-> track_uri,
                                       reason |-> "Failed to fetch track info from Spotify"]),
                   !.failed = @ + 1,
                   !.idx = @ + 1]

\* sizes of the set of unique track URIs: small ones, and one above the
\* sample size
TrackCounts == (0..MaxUris) \cup {SampleSize + 1}

\* random.sample(track_list, num_tracks): num_tracks distinct tracks in some
\* order.  Every order for a small list; for a long one the runs of
\* num_tracks tracks that start at the first, the second or the last track
\* of the list, wrapping around.
Samples(n, num_tracks) ==
    IF n <= MaxUris
    THEN {order \in Orders(1..n) : Len(order) = num_tracks}
    ELSE {[k \in 1..num_tracks |-> ((first + k - 2) % n) + 1] : first \in {1, 2, n}}

InitFetcher ==
    /\ disk = <<>>
    /\ _data = <<>>
    /\ _loaded = FALSE
    /\ oracle = DefaultOracle
    /\ ret = NoRet
    /\ threads = NoThreads
    /\ runner = NoRunner
    /\ fetcher = [pc |-> "start", num_tracks |-> 0, random_tracks |-> <<>>,
                  idx |-> 0, results |-> <<>>, failed_tracks |-> <<>>,
                  successful |-> 0, failed |-> 0]

\* steps 1 and 2 of main, and the initialisation of the counters
SelectTracks ==
    /\ fetcher.pc = "start"
    /\ \E n \in TrackCounts :
           IF n = 0
           THEN fetcher' = [fetcher EXCEPT !.pc = "no_tracks"]
           ELSE \E random_tracks \in Samples(n, Min2(SampleSize, n)) :
                    fetcher' = [fetcher EXCEPT
                                    !.pc = "loop",
                                    !.num_tracks = Min2(SampleSize, n),
                                    !.random_tracks = random_tracks]
    /\ UNCHANGED <<disk, _data, _loaded, oracle, ret, threads, runner>>

\* one turn of the processing loop
ProcessTrack ==
    /\ fetcher.pc = "loop"
    /\ fetcher.idx < fetcher.num_tracks
    /\ \E spotify \in SpotifyAnswers, musixmatch \in MusixmatchAnswers :
           LET track_uri == fetcher.random_tracks[fetcher.idx + 1]
           IN  fetcher' = LoopBody(fetcher, track_uri,
                                   process_single_track(track_uri, spotify, musixmatch))
    /\ UNCHANGED <<disk, _data, _loaded, oracle, ret, threads, runner>>

\* the summary and the saved report
SaveResults ==
    /\ fetcher.pc = "loop"
    /\ fetcher.idx = fetcher.num_tracks
    /\ fetcher' = [fetcher EXCEPT !.pc = "done"]
    /\ UNCHANGED <<disk, _data, _loaded, oracle, ret, threads, runner>>

NextFetcher == SelectTracks \/ ProcessTrack \/ SaveResults

SpecFetcher == InitFetcher /\ [][NextFetcher]_vars

---------------------------------------------------------------------------
(* Properties of the session builder, under SpecSessions *)

\* positions of the store's events that carry a timestamp
Stamped(data) == {i \in 1..Len(data) : data[i].ts # NoTs}

\* the records of all sessions of a list, in session order
AllRecords(sessions) == Concat([x \in 1..Len(sessions) |-> sessions[x].records])

\* timestamp of the first and of the last record of a session
FirstTs(data, session) == data[session.records[1]].ts
LastTs(data, session) == data[session.records[Len(session.records)]].ts

\* has the last call built the sessions of the loaded store
BuiltSessions == ret.op = "_build_sessions" /\ ~ret.load_raised

\* C1: the runs of the gap scan, before the runs of fewer than 3 events are
\* dropped, partition the timestamp-bearing events in ascending timestamp
\* order: every such event is in exactly one run, no event is in two, and
\* the runs are ordered by start time.
C1_SessionCoverage ==
    _loaded =>
        LET runs == AllRuns(_data)
            flat == AllRecords(runs)
        IN  /\ Range(flat) = Stamped(_data)
            /\ Len(flat) = Cardinality(Stamped(_data))
            /\ \A x \in 1..Len(runs) : runs[x].records # <<>>
            /\ \A a, b \in 1..Len(flat) : a < b => _data[flat[a]].ts <= _data[flat[b]].ts
            /\ \A x, y \in 1..Len(runs) :
                   x < y => FirstTs(_data, runs[x]) < FirstTs(_data, runs[y])

\* a store with an event without timestamp and at least two runs, one of
\* them shorter than 3 events
C1_Witness ==
    /\ _loaded
    /\ Stamped(_data) # 1..Len(_data)
    /\ Len(AllRuns(_data)) >= 2
    /\ \E x \in 1..Len(AllRuns(_data)) : Len(AllRuns(_data)[x].records) < MinTrackCount
    /\ BuiltSessions /\ Len(ret.out) = 1

\* C2: in the result of _build_sessions, consecutive events of one session
\* are at most 30 minutes apart, the last event of a session and the first
\* of the next are more than 30 minutes apart, and an event within 30
\* minutes (exactly 30 included) of an event of a session is in that session.
C2_GapInvariant ==
    BuiltSessions =>
        LET sessions == ret.out
        IN  /\ \A x \in 1..Len(sessions) :
                   \A a \in 1..(Len(sessions[x].records) - 1) :
                       LET gap == _data[sessions[x].records[a + 1]].ts
                                  - _data[sessions[x].records[a]].ts
                       IN  0 <= gap /\ gap <= 30 * 60
            /\ \A x \in 1..(Len(sessions) - 1) :
                   FirstTs(_data, sessions[x + 1]) - LastTs(_data, sessions[x]) > 30 * 60
            /\ \A x \in 1..Len(sessions) :
                   \A i \in Range(sessions[x].records) :
                       \A j \in Stamped(_data) :
                           (_data[j].ts - _data[i].ts <= 30 * 60
                            /\ _data[i].ts - _data[j].ts <= 30 * 60)
                               => j \in Range(sessions[x].records)

\* two sessions are returned and one of them holds two events exactly 30
\* minutes apart
C2_Witness ==
    /\ BuiltSessions
    /\ Len(ret.out) = 2
    /\ \E a \in 1..(Len(ret.out[1].records) - 1) :
           _data[ret.out[1].records[a + 1]].ts - _data[ret.out[1].records[a]].ts = 30 * 60

\* C3: no returned session has fewer than 3 events, the last run of the scan
\* included; the returned sessions are exactly the runs of 3 or more events.
C3_MinimumSize ==
    BuiltSessions =>
        LET sessions == ret.out
            runs == AllRuns(_data)
            long == SelectSeq([x \in 1..Len(runs) |-> x],
                              LAMBDA x : Len(runs[x].records) >= 3)
        IN  /\ \A x \in 1..Len(sessions) :
                   Len(sessions[x].records) >= 3 /\ sessions[x].track_count >= 3
            /\ sessions = [x \in 1..Len(long) |-> runs[long[x]]]

\* a session is returned although the last run of the scan is short
C3_Witness ==
    /\ BuiltSessions
    /\ Len(ret.out) >= 1
    /\ Len(AllRuns(_data)) >= 2
    /\ Len(AllRuns(_data)[Len(AllRuns(_data))].records) < 3

---------------------------------------------------------------------------
(* Properties of the event store, under Spec *)

\* the records of the files now on disk, in file order
OnDisk == Concat([i \in 1..Len(disk) |-> disk[i].recs])

HasCorruptFile == \E i \in 1..Len(disk) : ~disk[i].ok

\* C4: once load_data has completed, every later call (load_data or a query)
\* leaves the loaded flag set and the stored event collection as it is.
C4_LoadIdempotent == [][_loaded => (_loaded' /\ _data' = _data)]_vars

\* load_data was called on a loaded store whose files have changed since
C4_Witness ==
    /\ ret.op = "load_data"
    /\ ret.was_loaded
    /\ _loaded
    /\ ~HasCorruptFile
    /\ OnDisk # _data

\* C5: load fails when a file is malformed and when the files are missing or
\* yield no event: it never ends in the loaded state with an empty store.
C5_LoadFailsWithoutData ==
    /\ (ret.op = "load_data" /\ ~ret.was_loaded /\ HasCorruptFile) => ret.load_raised
    /\ _loaded => _data # <<>>

\* C6: a call that finds a file it cannot parse fails and leaves the store
\* as it was: flag still false, collection unchanged, nothing kept of the
\* files parsed before the corrupt one.
C6_NoPartialLoad ==
    [][(~_loaded /\ HasCorruptFile /\ disk' = disk)
           => (ret'.load_raised /\ ~_loaded' /\ _data' = _data)]_vars

\* a call has failed on a corrupt file that follows a file with records
C6_Witness ==
    /\ ret.load_raised
    /\ Len(disk) = 2
    /\ disk[1].ok /\ disk[1].recs # <<>>
    /\ ~disk[2].ok
    /\ ~_loaded
    /\ _data = <<>>

---------------------------------------------------------------------------
(* Properties of the clustering calls, under SpecCluster (C9: under Spec) *)

\* the instant an isoformat string stands for
ParseIso(str) == str[1] * 86400 + str[2] * 3600 + str[3] * 60 + str[4]

\* the last call returned from op without raising in load_data
Returned(op) == ret.op = op /\ ~ret.load_raised

C8_DegenerateFallback ==
    LET n == Len(_build_sessions(_data))
    IN  /\ (Returned("_cluster_sessions") /\ n < 10) =>
               /\ ret.out.status = "error"
               /\ ret.out.n_clusters = 1
               /\ Len(ret.out.sessions) = n
               /\ ret.out.labels = [i \in 1..n |-> 0]
               /\ ret.out.centroids = <<>>
        /\ (Returned("get_session_centroids") /\ n < 10) =>
               /\ ret.out.status = "ok"
               /\ ret.out.value = <<>>

\* get_session_centroids has returned on a store of 9 sessions
C8_Witness ==
    /\ Returned("get_session_centroids")
    /\ Len(_build_sessions(_data)) = 9
    /\ ret.out.value = <<>>

\* C9 as stated: when the fallback is taken, each of the three entry points
\* returns a response without error that stands for one cluster holding all
\* sessions: the report and the assignments carry every session (up to the
\* limit) with label 0, the centroid list is empty.
C9_DegenerateContract_Stated ==
    LET n == Len(_build_sessions(_data))
    IN  /\ (Returned("get_session_clusters") /\ n < 10) =>
               /\ ret.out.status # "error"
               /\ ret.out.n_clusters = 1
        /\ (Returned("get_session_centroids") /\ n < 10) =>
               /\ ret.out.status = "ok"
               /\ ret.out.value = <<>>
        /\ (Returned("get_session_assignments") /\ n < 10) =>
               /\ ret.out.status = "ok"
               /\ Len(ret.out.value) = Min2(ret.limit, n)
               /\ \A i \in 1..Len(ret.out.value) : ret.out.value[i].cluster_label = 0

\* C10: for n >= 10 clustered sessions and a limit >= 1,
\* get_session_assignments returns min(limit, n) sessions, the most recent
\* ones, newest first, each with the cluster label of its session and
\* without the 'records' payload.
C10_RecentAssignments ==
    (Returned("get_session_assignments") /\ ret.out.status = "ok"
     /\ Len(_build_sessions(_data)) >= 10) =>
        LET all == _build_sessions(_data)
            n == Len(all)
            clustered == _cluster_sessions(_data, oracle)
            value == ret.out.value
            ids == {value[i].session_id : i \in 1..Len(value)}
        IN  /\ Len(value) = Min2(ret.limit, n)
            /\ \A i, j \in 1..Len(value) :
                   i < j => ParseIso(value[i].start_time) > ParseIso(value[j].start_time)
            /\ \A x \in 1..n :
                   all[x].session_id \notin ids =>
                       \A i \in 1..Len(value) :
                           FirstTs(_data, all[x]) < ParseIso(value[i].start_time)
            /\ \A i \in 1..Len(value) :
                   /\ "records" \notin DOMAIN value[i]
                   /\ "cluster_label" \in DOMAIN value[i]
                   /\ value[i].cluster_label \in 0..(clustered.n_clusters - 1)
                   /\ \E x \in 1..n :
                          /\ all[x].session_id = value[i].session_id
                          /\ ParseIso(value[i].start_time) = FirstTs(_data, all[x])
                          /\ value[i].cluster_label = clustered.labels[x]

\* the assignments of a clustered store were cut to a limit below n
C10_Witness ==
    /\ Returned("get_session_assignments")
    /\ ret.out.status = "ok"
    /\ ret.limit = MaxLimit
    /\ Len(ret.out.value) = MaxLimit
    /\ Len(_build_sessions(_data)) >= 10

---------------------------------------------------------------------------
(* Properties of the pipeline stages *)

\* the keys of an event record of the export
EventKeys == {"ts", "artist", "skipped", "ms_played"}

Clustered == Returned("_cluster_sessions") /\ ret.out.status = "ok"

\* the largest k tried for n sessions
KMaxOf(n) == IF n \div 10 >= 8 THEN 8 ELSE IF n \div 10 < 2 THEN 2 ELSE n \div 10

\* C12: the selected k is one of the candidates 2..kMax, no candidate has a
\* higher silhouette score, and no smaller candidate has the same score; the
\* reported score is the score of the selected k.
C12_KSelection ==
    Clustered =>
        LET candidates == 2..KMaxOf(Len(ret.out.sessions))
            k == ret.out.n_clusters
        IN  /\ k \in candidates
            /\ \A c \in candidates : oracle.score[c] <= oracle.score[k]
            /\ \A c \in candidates : oracle.score[c] = oracle.score[k] => k <= c
            /\ ret.out.silhouette_score = oracle.score[k]

\* k = 3 was selected although k = 8 was tried and scored the same
C12_Witness ==
    /\ Clustered
    /\ KMaxOf(Len(ret.out.sessions)) = 8
    /\ ret.out.n_clusters = 3
    /\ oracle.score[3] = oracle.score[8]

\* C13: after the clustering step the label list has one label per retained
\* session, in the order of the session list, every label is an integer in
\* 0..k-1 for the reported k, and where the labels are written into the
\* sessions each session carries the label at its position.
C13_ClusterAssignment ==
    (Returned("_cluster_sessions") /\ ret.out.status # "raised") =>
        LET retained == _build_sessions(_data)
            sessions == ret.out.sessions
            labels == ret.out.labels
            k == ret.out.n_clusters
        IN  /\ Len(sessions) = Len(retained)
            /\ Len(labels) = Len(sessions)
            /\ \A i \in 1..Len(sessions) :
                   /\ sessions[i].session_id = retained[i].session_id
                   /\ labels[i] \in 0..(k - 1)
                   /\ ret.out.status = "ok" => sessions[i].cluster_label = labels[i]

\* 8 clusters were reported and both the first and the last cluster id are in
\* use
C13_Witness ==
    /\ Clustered
    /\ ret.out.n_clusters = 8
    /\ \E i \in 1..Len(ret.out.labels) : ret.out.labels[i] = 0
    /\ \E i \in 1..Len(ret.out.labels) : ret.out.labels[i] = 7

\* the events of the store whose timestamp is a parseable instant
ValidEvents(data) == SelectSeq(data, LAMBDA r : r.ts \notin {NoTs, BadTs})

\* what a session list says about the segmentation, without the references
\* into the store
Segments(sessions) ==
    [x \in 1..Len(sessions) |->
        [start_time |-> sessions[x].start_time, end_time |-> sessions[x].end_time,
         track_count |-> sessions[x].track_count]]

\* C14 as stated: an event whose timestamp is absent, empty or not parseable
\* appears in no session and does not make session building fail, and the
\* remaining events are segmented as if it were not there.
C14_InvalidTimestampsFiltered_Stated ==
    (ret.op = "_build_sessions" /\ ~ret.load_raised) =>
        /\ ~ret.raised
        /\ \A x \in 1..Len(ret.out) : \A i \in 1..Len(ret.out[x].records) :
               _data[ret.out[x].records[i]].ts \notin {NoTs, BadTs}
        /\ Segments(ret.out) = Segments(_build_sessions(ValidEvents(_data)))

\* the same for the events whose timestamp is absent or empty only: they are
\* in no session, the build does not raise and the other events are
\* segmented as if they were not there
AbsentTimestampsFiltered ==
    (ret.op = "_build_sessions" /\ ~ret.load_raised /\ ~ParseRaises(_data)) =>
        /\ ~ret.raised
        /\ \A x \in 1..Len(ret.out) : \A i \in 1..Len(ret.out[x].records) :
               _data[ret.out[x].records[i]].ts # NoTs
        /\ Segments(ret.out) = Segments(_build_sessions(ValidEvents(_data)))

\* C15 as stated: every retained session has 0 < unique_artists_count <=
\* track_count, so its diversity_score lies in (0, 1], whether the artist
\* names of its events are present or absent.
C15_DiversityRange_Stated ==
    (ret.op = "_build_sessions" /\ ~ret.load_raised /\ ~ret.raised) =>
        \A x \in 1..Len(ret.out) :
            /\ 0 < ret.out[x].unique_artists_count
            /\ ret.out[x].unique_artists_count <= ret.out[x].track_count
            /\ 0 < ret.out[x].diversity_score
            /\ ret.out[x].diversity_score <= 1000

\* C16: for n >= 10 sessions the candidates fitted by the selection loop are
\* exactly 2, 3, ..., kMax in this order, where kMax is min(8, n // 10)
\* raised to at least 2.
C16_KMaxRule ==
    (Clustered /\ Len(ret.out.sessions) >= 10) =>
        LET n == Len(ret.out.sessions)
            floor10 == n \div 10
            capped == IF floor10 < 8 THEN floor10 ELSE 8
            kMax == IF capped < 2 THEN 2 ELSE capped
        IN  ret.out.tried = [i \in 1..(kMax - 1) |-> i + 1]

\* a store of 90 to 99 sessions was clustered and the last candidate fitted
\* was 8
C16_Witness ==
    /\ Clustered
    /\ Len(ret.out.sessions) \div 10 = 9
    /\ Len(ret.out.tried) = 7
    /\ ret.out.tried[7] = 8

\* the timestamps of the records of a session, in session order
TsOf(data, session) == [i \in 1..Len(session.records) |-> data[session.records[i]].ts]

\* C17: two bursts of 4 events, the events of a burst 5 minutes apart and
\* the bursts 45 minutes apart, give exactly 2 sessions of 4 events each,
\* the first burst and the second, in whatever order the events were loaded.
C17_TwoBursts ==
    (BuiltSessions /\ ~ret.raised /\ Range(_data) = {Rec(t) : t \in TwoBursts}
     /\ Len(_data) = 8) =>
        /\ Len(ret.out) = 2
        /\ \A x \in 1..2 : ret.out[x].track_count = 4
        /\ TsOf(_data, ret.out[1]) = <<0, 300, 600, 900>>
        /\ TsOf(_data, ret.out[2]) = <<3600, 3900, 4200, 4500>>

\* the bursts were loaded interleaved and newest first, and two sessions
\* were built
C17_Witness ==
    /\ BuiltSessions
    /\ Len(ret.out) = 2
    /\ Len(_data) = 8
    /\ [i \in 1..4 |-> _data[i].ts] = <<4500, 900, 4200, 600>>

\* the store holds exactly 2 events, both with a timestamp that parses
TwoEvents ==
    /\ _loaded
    /\ Len(_data) = 2
    /\ \A i \in 1..Len(_data) : _data[i].ts \notin {NoTs, BadTs}

\* C18: a store of 2 events yields no session, and each of the three entry
\* points returns without raising: the report with n_clusters = 1 over no
\* session and no centroid, an empty centroid list, an empty assignment
\* list.
C18_TwoEvents ==
    (TwoEvents /\ ~ret.load_raised) =>
        /\ _build_sessions(_data) = <<>>
        /\ ret.op = "_build_sessions" => (~ret.raised /\ ret.out = <<>>)
        /\ ret.op = "get_session_clusters" =>
               /\ ~ret.raised
               /\ ret.out.n_clusters = 1
               /\ ret.out.sessions = <<>>
               /\ ret.out.labels = <<>>
               /\ ret.out.centroids = <<>>
        /\ ret.op = "get_session_centroids" =>
               (~ret.raised /\ ret.out.status = "ok" /\ ret.out.value = <<>>)
        /\ ret.op = "get_session_assignments" =>
               (~ret.raised /\ ret.out.status = "ok" /\ ret.out.value = <<>>)

\* the report was asked for on a store of 2 events that lie in one run
C18_Witness ==
    /\ TwoEvents
    /\ Returned("get_session_clusters")
    /\ Len(AllRuns(_data)) = 1
    /\ ret.out.n_clusters = 1

\* C19: the start_time of a session is the timestamp of its first event and
\* its end_time that of its last event; the timestamps of its events never
\* decrease from one event to the next (each event added moved end_time to
\* its own timestamp), so start_time <= end_time and the duration is not
\* negative.
C19_SessionBounds ==
    (BuiltSessions /\ ~ret.raised) =>
        \A x \in 1..Len(ret.out) :
            LET ts == TsOf(_data, ret.out[x])
            IN  /\ ParseIso(ret.out[x].start_time) = ts[1]
                /\ ParseIso(ret.out[x].end_time) = ts[Len(ts)]
                /\ \A i \in 1..(Len(ts) - 1) : ts[i] <= ts[i + 1]
                /\ ParseIso(ret.out[x].start_time) <= ParseIso(ret.out[x].end_time)
                /\ ret.out[x].duration_minutes >= 0
                /\ ret.out[x].duration_minutes = RoundDiv((ts[Len(ts)] - ts[1]) * 100, 60)

\* a session that lasts half an hour was built from events of which the
\* latest arrived first
C19_Witness ==
    /\ BuiltSessions
    /\ Len(_data) >= 3
    /\ _data[1].ts = 1800
    /\ \E x \in 1..Len(ret.out) :
           /\ ParseIso(ret.out[x].start_time) = 0
           /\ ParseIso(ret.out[x].end_time) = 1800

\* cluster count, labels and centroids of a clustering result
ClusterModel(result) ==
    [n_clusters |-> result.n_clusters, labels |-> result.labels,
     centroids |-> result.centroids]

---------------------------------------------------------------------------
(* Properties of the single-date lookup, under Spec *)

\* the date strings that are no ISO date
InvalidDateStrings == {"1970-13-01", "01/01/1970", ""}

---------------------------------------------------------------------------
(* Properties of concurrent first loads, under SpecThreads *)

\* the callers that found the store not loaded and went on to read the files
Loaders == {t \in DOMAIN threads : threads[t].passed_check}

\* C22: under any interleaving of callers of load_data and of query methods
\* on an initially unloaded store, whenever the loaded flag is set the event
\* collection is the complete record set of all source files, and what a
\* query method has read from the store is that complete collection.
C22_LoadedMeansComplete ==
    /\ _loaded => _data = OnDisk
    /\ \A t \in DOMAIN threads :
           (threads[t].kind = "_build_sessions" /\ threads[t].pc = "done") =>
               threads[t].seen = OnDisk

\* a query method has read the store of two files while another caller,
\* which also found the store not loaded, is still inside load_data
C22_Witness ==
    /\ _loaded
    /\ Len(disk) = 2 /\ disk[1].recs # <<>> /\ disk[2].recs # <<>>
    /\ \E t \in Loaders, u \in Loaders :
           /\ t # u
           /\ threads[t].kind = "_build_sessions" /\ threads[t].pc = "done"
           /\ threads[u].pc \in {"read_file", "publish", "set_loaded"}

\* C23: when two or more callers have passed the not-loaded check, the store
\* is at every moment either still empty or the records of the files, each
\* once and in file order, and it is the latter once all callers have
\* returned.
C23_ConcurrentLoadOnce ==
    Cardinality(Loaders) >= 2 =>
        /\ _data \in {<<>>, OnDisk}
        /\ (\A t \in DOMAIN threads : threads[t].pc = "done") => _data = OnDisk

\* two callers have both read both files, stored their lists and returned
C23_Witness ==
    /\ Cardinality(Loaders) >= 2
    /\ \A t \in DOMAIN threads : threads[t].pc = "done"
    /\ Len(disk) = 2 /\ disk[1].recs # <<>> /\ disk[2].recs # <<>>
    /\ _data = OnDisk

---------------------------------------------------------------------------
(* Properties of the four gap scans, under SpecScans *)

ScanOps ==
    {"_build_sessions", "get_session_durations", "get_binge_sessions",
     "get_session_statistics"}

---------------------------------------------------------------------------
(* Properties of the cluster report, under SpecCluster *)

\* C25: in the report of get_session_clusters on 10 or more sessions, the
\* session_count values of the listed clusters sum to total_sessions, every
\* listed cluster has at least one session, and the listed cluster_id values
\* are ascending (hence distinct) and within 0..n_clusters-1.
C25_ClusterReport ==
    (Returned("get_session_clusters") /\ ret.out.status = "ok") =>
        LET clusters == ret.out.clusters
        IN  /\ ret.out.total_sessions >= MinSessions
            /\ SumRange([x \in 1..Len(clusters) |-> clusters[x].session_count],
                        1, Len(clusters)) = ret.out.total_sessions
            /\ \A x \in 1..Len(clusters) :
                   /\ clusters[x].session_count >= 1
                   /\ 0 <= clusters[x].cluster_id
                   /\ clusters[x].cluster_id < ret.out.n_clusters
            /\ \A x \in 1..Len(clusters), y \in 1..Len(clusters) :
                   x < y => clusters[x].cluster_id < clusters[y].cluster_id

\* a report of 3 or more clusters in which one cluster id has no session and
\* is left out
C25_Witness ==
    /\ Returned("get_session_clusters") /\ ret.out.status = "ok"
    /\ ret.out.n_clusters >= 3
    /\ Len(ret.out.clusters) = ret.out.n_clusters - 1

---------------------------------------------------------------------------
(* Properties of the session identifiers, under SpecSessions *)

\* C26: no two sessions returned by _build_sessions have the same session_id
\* (the formatted start time of the session).
C26_UniqueSessionIds ==
    (BuiltSessions /\ ~ret.raised) =>
        \A x \in 1..Len(ret.out), y \in 1..Len(ret.out) :
            x # y => ret.out[x].session_id # ret.out[y].session_id

\* two sessions were built, starting on the same day
C26_Witness ==
    /\ BuiltSessions /\ ~ret.raised
    /\ Len(ret.out) = 2
    /\ ret.out[1].session_id[1] = ret.out[2].session_id[1]

---------------------------------------------------------------------------
(* Properties of the listening streaks, under SpecStreaks *)

\* the days that have a timestamped event
ListeningDays(data) == {DateOf(data[i].ts) : i \in Stamped(data)}

\* the first days of the maximal runs of consecutive listening days that
\* span 3 days or more
StreakStarts(data) ==
    LET days == ListeningDays(data)
    IN  {d \in days : d - 1 \notin days /\ d + 1 \in days /\ d + 2 \in days}

\* C27: every streak returned by get_listening_streaks is a maximal run of
\* consecutive listening days of 3 days or more, the final run of the scan
\* included; the returned runs are pairwise disjoint; total_streams is the
\* number of timestamped events on the days of the run; the list is in
\* descending length_days order and is cut to limit, the runs left out being
\* no longer than those listed.
C27_Streaks ==
    (Returned("get_listening_streaks") /\ ~ret.raised) =>
        LET days == ListeningDays(_data)
            out == ret.out
            first(x) == out[x].start_date[1]
            last(x) == out[x].end_date[1]
        IN  /\ \A x \in 1..Len(out) :
                   /\ out[x].length_days = last(x) - first(x) + 1
                   /\ out[x].length_days >= 3
                   /\ \A d \in first(x)..last(x) : d \in days
                   /\ first(x) - 1 \notin days
                   /\ last(x) + 1 \notin days
                   /\ out[x].total_streams =
                          Cardinality({i \in Stamped(_data) :
                                          DateOf(_data[i].ts) \in first(x)..last(x)})
            /\ \A x \in 1..Len(out), y \in 1..Len(out) :
                   x # y => (first(x)..last(x)) \cap (first(y)..last(y)) = {}
            /\ \A x \in 1..Len(out), y \in 1..Len(out) :
                   x < y => out[x].length_days >= out[y].length_days
            /\ Len(out) = Min2(ret.limit, Cardinality(StreakStarts(_data)))
            /\ \A d \in StreakStarts(_data) :
                   (\A x \in 1..Len(out) : first(x) # d) =>
                       \A x \in 1..Len(out) :
                           \E e \in d..(d + out[x].length_days) : e \notin days

\* two streaks, the older one of 3 days and the final one of 4 days with
\* two events on some of them, are returned longest first
C27_Witness ==
    /\ Returned("get_listening_streaks") /\ ~ret.raised
    /\ Len(ret.out) = 2
    /\ ret.out[1].length_days = 4 /\ ret.out[2].length_days = 3
    /\ ret.out[2].start_date[1] < ret.out[1].start_date[1]
    /\ ret.out[1].end_date[1] = MaxDay - 1
    /\ MaxDay \notin ListeningDays(_data)
    /\ ret.out[1].total_streams > 4

---------------------------------------------------------------------------
(* Properties of the master script, under SpecRunner *)

\* the scripts that have a status, and the first n scripts of the list
Handled == DOMAIN runner.results
FirstScripts(n) == {scripts[k] : k \in 1..n}

\* the scripts run so far are in list order, one at a time, and the loop has
\* given exactly one status to each script before its position
RunnerInOrder ==
    /\ Cardinality(runner.running) <= 1
    /\ \A x \in 1..Len(runner.launched), y \in 1..Len(runner.launched) :
           x < y => \E k \in 1..Len(scripts), l \in 1..Len(scripts) :
                        /\ k < l
                        /\ runner.launched[x] = scripts[k]
                        /\ runner.launched[y] = scripts[l]
    /\ runner.pc \in {"loop", "waiting"} =>
           /\ Handled = FirstScripts(runner.i - 1)
           /\ runner.running = IF runner.pc = "waiting" THEN {scripts[runner.i]}
                               ELSE {}
    /\ \A s \in Handled :
           /\ runner.results[s] \in {"SUCCESS", "FAILED", "NOT FOUND"}
           /\ runner.results[s] = "NOT FOUND" <=>
                  \A x \in 1..Len(runner.launched) : runner.launched[x] # s
    /\ runner.pc = "done" => Handled = FirstScripts(Len(scripts))

\* C28: the master script runs the scripts in list order, one at a time;
\* every script ends with exactly one of the statuses SUCCESS, FAILED and
\* NOT FOUND; and whatever fails or is missing, the summary is reached.
C28_RunnerCompletes == []RunnerInOrder /\ <>(runner.pc = "done")

\* the summary is reached although the first script failed and the second
\* is missing, the scripts after them having run
C28_Witness ==
    /\ runner.pc = "done"
    /\ runner.results[scripts[1]] = "FAILED"
    /\ runner.results[scripts[2]] = "NOT FOUND"
    /\ \A k \in 3..Len(scripts) : runner.results[scripts[k]] = "SUCCESS"
    /\ Len(runner.launched) = Len(scripts) - 1

---------------------------------------------------------------------------
(* Properties of the lyrics fetcher, under SpecFetcher *)

\* the positions of a track in the two lists
InResults(track_uri) ==
    {x \in 1..Len(fetcher.results) : fetcher.results[x].track_uri = track_uri}
InFailed(track_uri) ==
    {x \in 1..Len(fetcher.failed_tracks) :
        fetcher.failed_tracks[x].track_uri = track_uri}

\* C29: after each processed track successful + failed is the number of
\* tracks processed so far, len(results) = successful and
\* len(failed_tracks) = failed; every processed track is exactly once in
\* exactly one of the two lists, a track not yet processed in none; and at
\* the end successful + failed = num_tracks.
C29_FetcherCounters ==
    fetcher.pc \in {"loop", "done"} =>
        /\ fetcher.successful + fetcher.failed = fetcher.idx
        /\ Len(fetcher.results) = fetcher.successful
        /\ Len(fetcher.failed_tracks) = fetcher.failed
        /\ \A k \in 1..Len(fetcher.random_tracks) :
               Cardinality(InResults(fetcher.random_tracks[k]))
                   + Cardinality(InFailed(fetcher.random_tracks[k]))
               = IF k <= fetcher.idx THEN 1 ELSE 0
        /\ fetcher.pc = "done" =>
               fetcher.successful + fetcher.failed = fetcher.num_tracks

\* a run over a sample of 10 out of 11 tracks has ended with tracks that got
\* lyrics, tracks without lyrics and tracks without track info
C29_Witness ==
    /\ fetcher.pc = "done"
    /\ fetcher.num_tracks = SampleSize
    /\ fetcher.successful >= 1
    /\ \E x \in 1..Len(fetcher.failed_tracks), y \in 1..Len(fetcher.failed_tracks) :
           /\ fetcher.failed_tracks[x].reason = "No lyrics found"
           /\ fetcher.failed_tracks[y].reason # "No lyrics found"

====
